---- MODULE Spec2Model ----
(***************************************************************************)
(* A model of the chess rules library: the game state, the move generator, *)
(* the attack detector and the move executor.                              *)
(***************************************************************************)
EXTENDS Integers, Sequences, FiniteSets, TLC

\* ------------------------------------------------------------------------
\* Bounds of the model
\* ------------------------------------------------------------------------

\* The number of successful move_piece calls explored after construction
\* (one less from the positions with many moves).
MaxPly == 2

\* The fewest and the most rank strings of a placement string handed to the
\* parser.
MinRanks == 7

MaxRanks == 9

\* ------------------------------------------------------------------------
\* pos.rs: BoardPos
\* ------------------------------------------------------------------------

Coord == 0..7

BoardPos == [file : Coord, rank : Coord]

\* Option<BoardPos>::None
NonePos == [file |-> -1, rank |-> -1]

New(f, r) == [file |-> f, rank |-> r]

\* BoardPos::offset: the offset position, or None outside the board.
Offset(pos, delta_file, delta_rank) ==
    LET file == pos.file + delta_file
        rank == pos.rank + delta_rank
    IN  IF file < 0 \/ file > 7 \/ rank < 0 \/ rank > 7
        THEN NonePos
        ELSE New(file, rank)

AbsDiff(a, b) == IF a > b THEN a - b ELSE b - a

\* ------------------------------------------------------------------------
\* piece.rs, board.rs: PieceType, Color, Tile, Board
\* ------------------------------------------------------------------------

PieceType == {"King", "Queen", "Rook", "Bishop", "Knight", "Pawn"}

Color == {"White", "Black"}

Opposite(color) == IF color = "White" THEN "Black" ELSE "White"

Tile == [piece : PieceType, color : Color]

\* Option<Tile>::None
None == [piece |-> "None", color |-> "None"]

NewTile(piece, color) == [piece |-> piece, color |-> color]

\* Board::empty
Empty == [rank \in Coord |-> [file \in Coord |-> None]]

\* Board::get_tile: data[rank][file]
GetTile(b, pos) == b[pos.rank][pos.file]

\* Board::set_tile
SetTile(b, pos, tile) == [b EXCEPT ![pos.rank][pos.file] = tile]

\* Board::remove_tile (the board afterwards; the caller reads the old tile
\* with GetTile)
RemoveTile(b, pos) == [b EXCEPT ![pos.rank][pos.file] = None]

\* Board::set_or_remove_tile
SetOrRemoveTile(b, pos, tile) == [b EXCEPT ![pos.rank][pos.file] = tile]

\* PieceType::from_char on the lowercased letter
FromChar(c) ==
    CASE c = "k" -> "King"
      [] c = "q" -> "Queen"
      [] c = "r" -> "Rook"
      [] c = "b" -> "Bishop"
      [] c = "n" -> "Knight"
      [] c = "p" -> "Pawn"

Lower(c) ==
    CASE c = "K" -> "k" [] c = "Q" -> "q" [] c = "R" -> "r"
      [] c = "B" -> "b" [] c = "N" -> "n" [] c = "P" -> "p"
      [] OTHER -> c

\* The tile a placement letter stands for: uppercase is White, "." is an
\* empty square (a run of one).
TileOfChar(c) ==
    IF c = "." THEN None
    ELSE NewTile(FromChar(Lower(c)), IF c = Lower(c) THEN "Black" ELSE "White")

\* A board from its eight placement rows, rank 8 first, each row the eight
\* squares of files a..h.
BoardOfRows(rows) ==
    [rank \in Coord |-> [file \in Coord |-> TileOfChar(rows[8 - rank][file + 1])]]

\* ------------------------------------------------------------------------
\* game/movement.rs: the move generator
\* ------------------------------------------------------------------------

\* TryMoveOnce taking a friendly tile like an enemy one.
TryMoveOnceOntoFriend(b, start, delta_file, delta_rank, friendly_color) ==
    LET pos == Offset(start, delta_file, delta_rank)
    IN  IF pos = NonePos THEN {}
        ELSE IF GetTile(b, pos) = None
             THEN {[pos |-> pos, move_type |-> "ToEmpty"]}
             ELSE {[pos |-> pos, move_type |-> "Attacking"]}

\* try_move_once: Option<(BoardPos, MoveType)> as a set of at most one record.
TryMoveOnce(b, start, delta_file, delta_rank, friendly_color) ==
    LET pos == Offset(start, delta_file, delta_rank)
    IN  IF pos = NonePos THEN {}
        ELSE LET tile == GetTile(b, pos)
             IN  IF tile = None
                 THEN {[pos |-> pos, move_type |-> "ToEmpty"]}
                 ELSE IF tile.color = friendly_color
                      THEN {}
                      ELSE {[pos |-> pos, move_type |-> "Attacking"]}

\* try_moves_once
TryMovesOnce(b, start, friendly_color, delta_positions) ==
    UNION {{m.pos : m \in TryMoveOnce(b, start, d[1], d[2], friendly_color)} :
           d \in delta_positions}

\* try_attacking_move
TryAttackingMove(b, start, friendly_color, delta_file, delta_rank) ==
    {m.pos : m \in {x \in TryMoveOnce(b, start, delta_file, delta_rank, friendly_color) :
                        x.move_type = "Attacking"}}

\* TryMoveMultiple walking on past a tile it attacks.
RECURSIVE TryMoveMultipleThrough(_, _, _, _, _)
TryMoveMultipleThrough(b, pos, friendly_color, delta_file, delta_rank) ==
    LET new_move == TryMoveOnce(b, pos, delta_file, delta_rank, friendly_color)
    IN  IF new_move = {} THEN {}
        ELSE LET m == CHOOSE x \in new_move : TRUE
             IN  {m.pos} \cup
                 TryMoveMultipleThrough(b, m.pos, friendly_color, delta_file, delta_rank)

\* try_move_multiple: walk outward until a move is not possible or attacks.
RECURSIVE TryMoveMultiple(_, _, _, _, _)
TryMoveMultiple(b, pos, friendly_color, delta_file, delta_rank) ==
    LET new_move == TryMoveOnce(b, pos, delta_file, delta_rank, friendly_color)
    IN  IF new_move = {} THEN {}
        ELSE LET m == CHOOSE x \in new_move : TRUE
             IN  {m.pos} \cup
                 (IF m.move_type = "Attacking" THEN {}
                  ELSE TryMoveMultiple(b, m.pos, friendly_color, delta_file, delta_rank))

\* try_moves_multiple
TryMovesMultiple(b, start, friendly_color, vectors) ==
    UNION {TryMoveMultiple(b, start, friendly_color, d[1], d[2]) : d \in vectors}

QueenVectors ==
    {<<-1, 1>>, <<0, 1>>, <<1, 1>>, <<-1, 0>>, <<1, 0>>, <<-1, -1>>, <<0, -1>>, <<1, -1>>}

RookVectors == {<<0, 1>>, <<-1, 0>>, <<1, 0>>, <<0, -1>>}

BishopVectors == {<<-1, 1>>, <<1, 1>>, <<-1, -1>>, <<1, -1>>}

KnightDeltas ==
    {<<-1, 2>>, <<1, 2>>, <<2, 1>>, <<2, -1>>, <<-1, -2>>, <<1, -2>>, <<-2, 1>>, <<-2, -1>>}

KingDeltas == QueenVectors

\* find_rook: from `start` in direction `dir`, the first occupied square if
\* it holds a rook of `color`, otherwise None.
RECURSIVE FindRook(_, _, _, _)
FindRook(b, pos, color, dir) ==
    LET tile == GetTile(b, pos)
    IN  IF tile # None
        THEN IF tile.color # color \/ tile.piece # "Rook" THEN NonePos ELSE pos
        ELSE LET new_pos == Offset(pos, dir, 0)
             IN  IF new_pos = NonePos THEN NonePos ELSE FindRook(b, new_pos, color, dir)

CastlingOf(g, color) == IF color = "White" THEN g.white_castling ELSE g.black_castling

\* PawnMoves with the diagonal steps tried like the forward ones.
PawnMovesAnyDiagonal(g, pos, tile) ==
    LET b == g.board
        dir == IF tile.color = "White" THEN 1 ELSE -1
        first_rank == IF tile.color = "White" THEN 1 ELSE 6
        is_first_move == pos.rank = first_rank
        pos_one_forward == Offset(pos, 0, dir)
        piece_one_forward ==
            IF pos_one_forward = NonePos THEN None ELSE GetTile(b, pos_one_forward)
        one == TryMovesOnce(b, pos, tile.color, {<<0, dir>>})
        two == IF is_first_move /\ piece_one_forward = None
               THEN TryMovesOnce(b, pos, tile.color, {<<0, 2 * dir>>})
               ELSE {}
        attacks == TryMovesOnce(b, pos, tile.color, {<<-1, dir>>, <<1, dir>>})
        target == g.en_passant_target
        en_passant ==
            IF target # NonePos
               /\ target.rank = pos.rank + dir
               /\ AbsDiff(target.file, pos.file) = 1
            THEN LET attacked_pawn == GetTile(b, New(target.file, pos.rank))
                 IN  IF attacked_pawn # None
                        /\ attacked_pawn.piece = "Pawn"
                        /\ attacked_pawn.color # tile.color
                     THEN {target}
                     ELSE {}
            ELSE {}
    IN  one \cup two \cup attacks \cup en_passant

\* The pawn arm of get_pseudo_legal_moves.
PawnMoves(g, pos, tile) ==
    LET b == g.board
        dir == IF tile.color = "White" THEN 1 ELSE -1
        first_rank == IF tile.color = "White" THEN 1 ELSE 6
        is_first_move == pos.rank = first_rank
        pos_one_forward == Offset(pos, 0, dir)
        piece_one_forward ==
            IF pos_one_forward = NonePos THEN None ELSE GetTile(b, pos_one_forward)
        one == TryMovesOnce(b, pos, tile.color, {<<0, dir>>})
        two == IF is_first_move /\ piece_one_forward = None
               THEN TryMovesOnce(b, pos, tile.color, {<<0, 2 * dir>>})
               ELSE {}
        attacks == TryAttackingMove(b, pos, tile.color, -1, dir)
                   \cup TryAttackingMove(b, pos, tile.color, 1, dir)
        target == g.en_passant_target
        en_passant ==
            IF target # NonePos
               /\ target.rank = pos.rank + dir
               /\ AbsDiff(target.file, pos.file) = 1
            THEN LET attacked_pawn == GetTile(b, New(target.file, pos.rank))
                 IN  IF attacked_pawn # None
                        /\ attacked_pawn.piece = "Pawn"
                        /\ attacked_pawn.color # tile.color
                     THEN {target}
                     ELSE {}
            ELSE {}
    IN  one \cup two \cup attacks \cup en_passant

\* get_pseudo_legal_moves without the castling block of the king arm.
PlainMoves(g, pos) ==
    LET tile == GetTile(g.board, pos)
    IN  CASE tile.piece = "Queen" -> TryMovesMultiple(g.board, pos, tile.color, QueenVectors)
          [] tile.piece = "Rook" -> TryMovesMultiple(g.board, pos, tile.color, RookVectors)
          [] tile.piece = "Bishop" -> TryMovesMultiple(g.board, pos, tile.color, BishopVectors)
          [] tile.piece = "Knight" -> TryMovesOnce(g.board, pos, tile.color, KnightDeltas)
          [] tile.piece = "King" -> TryMovesOnce(g.board, pos, tile.color, KingDeltas)
          [] tile.piece = "Pawn" -> PawnMoves(g, pos, tile)

\* ------------------------------------------------------------------------
\* game/check.rs: the attack detector
\* ------------------------------------------------------------------------

RECURSIVE GetPseudoLegalMoves(_, _, _)

\* is_attacked_by: some tile of `color` has `pos` among its pseudo-legal
\* moves computed without castling.
IsAttackedBy(g, pos, color) ==
    \E file \in Coord, rank \in Coord :
        LET enemy_pos == New(file, rank)
            tile == GetTile(g.board, enemy_pos)
        IN  /\ tile # None
            /\ tile.color = color
            /\ pos \in GetPseudoLegalMoves(g, enemy_pos, FALSE)

\* get_king_pos: the first king of `color` in file-major order, or None.
GetKingPos(g, color) ==
    LET kings == {p \in BoardPos : GetTile(g.board, p) = NewTile("King", color)}
    IN  IF kings = {} THEN NonePos
        ELSE CHOOSE p \in kings :
                \A q \in kings : p.file * 8 + p.rank <= q.file * 8 + q.rank

\* is_check
IsCheck(g, color) ==
    LET king_pos == GetKingPos(g, color)
    IN  IF king_pos = NonePos THEN FALSE
        ELSE IsAttackedBy(g, king_pos, Opposite(color))

\* is_checkmate: the board while one move is attempted, the tile set on
\* `move_pos` and taken off `pos`.
Attempt(b, pos, move_pos, tile) == RemoveTile(SetTile(b, move_pos, tile), pos)

\* is_checkmate: in check, and every attempted pseudo-legal move (castling
\* left out) of every tile of `color` ends in check. Each attempt is undone
\* before the next, so the board is left as it was.
IsCheckmate(g, color) ==
    /\ IsCheck(g, color)
    /\ \A file \in Coord, rank \in Coord :
          LET pos == New(file, rank)
              tile == GetTile(g.board, pos)
          IN  (tile # None /\ tile.color = color) =>
                  \A move_pos \in GetPseudoLegalMoves(g, pos, FALSE) :
                      IsCheck([g EXCEPT !.board = Attempt(g.board, pos, move_pos, tile)],
                              color)

\* ------------------------------------------------------------------------
\* game/movement.rs: castling qualification
\* ------------------------------------------------------------------------

\* TryCastling without the attack test on the crossed square.
TryCastlingUnguarded(g, start, color, dir) ==
    LET cross_over_pos == Offset(start, dir, 0)
        king_pos == IF cross_over_pos = NonePos THEN NonePos
                    ELSE Offset(cross_over_pos, dir, 0)
    IN  IF king_pos # NonePos /\ FindRook(g.board, king_pos, color, dir) # NonePos
        THEN {king_pos}
        ELSE {}

\* try_castling: the king's landing square as a set of at most one position.
TryCastling(g, start, color, dir) ==
    LET cross_over_pos == Offset(start, dir, 0)
    IN  IF cross_over_pos = NonePos THEN {}
        ELSE IF IsAttackedBy(g, cross_over_pos, Opposite(color)) THEN {}
        ELSE LET king_pos == Offset(cross_over_pos, dir, 0)
             IN  IF king_pos = NonePos THEN {}
                 ELSE IF FindRook(g.board, king_pos, color, dir) # NonePos
                      THEN {king_pos}
                      ELSE {}

\* The castling block of the king arm of get_pseudo_legal_moves.
CastlingMoves(g, pos, color) ==
    LET castling_availability == CastlingOf(g, color)
    IN  IF (castling_availability.kingside \/ castling_availability.queenside)
           /\ ~IsCheck(g, color)
        THEN (IF castling_availability.kingside
              THEN TryCastling(g, pos, color, 1) ELSE {})
             \cup
             (IF castling_availability.queenside
              THEN TryCastling(g, pos, color, -1) ELSE {})
        ELSE {}

\* get_pseudo_legal_moves
GetPseudoLegalMoves(g, pos, include_castling) ==
    LET tile == GetTile(g.board, pos)
    IN  PlainMoves(g, pos) \cup
        (IF tile.piece = "King" /\ include_castling
         THEN CastlingMoves(g, pos, tile.color)
         ELSE {})

\* ------------------------------------------------------------------------
\* game/movement.rs: the move executor
\* ------------------------------------------------------------------------

Changed(pos, tile) == [pos |-> pos, tile |-> tile]

\* The castling arm of perform_move, from the record `pm` holding the first
\* two changed tiles.
PerformCastling(pm, tile, from, to) ==
    LET dir == IF to.file > from.file THEN 1 ELSE -1
        new_rook_pos == Offset(from, dir, 0)
        rook_pos == IF new_rook_pos = NonePos THEN NonePos
                    ELSE FindRook(pm.board, new_rook_pos, tile.color, dir)
    IN  IF new_rook_pos = NonePos \/ rook_pos = NonePos
        THEN [pm EXCEPT !.panic = TRUE]
        ELSE LET rook == GetTile(pm.board, rook_pos)
                 b1 == RemoveTile(pm.board, rook_pos)
                 recorded == Append(Append(pm.changed_tiles, Changed(rook_pos, rook)),
                                    Changed(new_rook_pos, GetTile(b1, new_rook_pos)))
                 b2 == SetTile(SetTile(RemoveTile(b1, from), to, tile), new_rook_pos, rook)
             IN  [pm EXCEPT !.board = b2, !.changed_tiles = recorded]

\* PerformEnPassant leaving the attacked pawn on the board.
PerformEnPassantKeepsPawn(pm, tile, from, to) ==
    LET attacked_pawn_pos == New(to.file, from.rank)
        attacked_pawn == GetTile(pm.board, attacked_pawn_pos)
    IN  IF attacked_pawn = None
           \/ attacked_pawn.piece # "Pawn" \/ attacked_pawn.color = tile.color
        THEN [pm EXCEPT !.panic = TRUE]
        ELSE [pm EXCEPT !.had_capture = TRUE]

\* The en passant arm of perform_move.
PerformEnPassant(pm, tile, from, to) ==
    LET attacked_pawn_pos == New(to.file, from.rank)
        attacked_pawn == GetTile(pm.board, attacked_pawn_pos)
        b1 == RemoveTile(pm.board, attacked_pawn_pos)
    IN  IF attacked_pawn = None
           \/ attacked_pawn.piece # "Pawn" \/ attacked_pawn.color = tile.color
        THEN [pm EXCEPT !.board = b1, !.panic = TRUE]
        ELSE [pm EXCEPT !.board = b1,
                        !.had_capture = TRUE,
                        !.changed_tiles = Append(@, Changed(attacked_pawn_pos, attacked_pawn))]

\* perform_move: the board afterwards and the PerformedMove record; panic
\* tells that one of its expect/panic! assertions was hit.
PerformMove(g, from, to) ==
    LET tile == GetTile(g.board, from)
        to_tile == GetTile(g.board, to)
        pm0 == [board |-> g.board,
                changed_tiles |-> <<Changed(from, tile), Changed(to, to_tile)>>,
                had_capture |-> to_tile # None,
                panic |-> tile = None]
        pm1 == IF tile.piece = "King" /\ AbsDiff(from.file, to.file) = 2
               THEN PerformCastling(pm0, tile, from, to)
               ELSE [pm0 EXCEPT !.board = SetTile(RemoveTile(g.board, from), to, tile)]
    IN  IF pm0.panic \/ pm1.panic THEN [pm1 EXCEPT !.panic = TRUE]
        ELSE IF tile.piece = "Pawn" /\ g.en_passant_target = to
             THEN PerformEnPassant(pm1, tile, from, to)
             ELSE pm1

\* undo_performed_move: replay the changed tiles in the order recorded.
RECURSIVE UndoPerformedMove(_, _)
UndoPerformedMove(b, changed_tiles) ==
    IF changed_tiles = <<>> THEN b
    ELSE UndoPerformedMove(
            SetOrRemoveTile(b, Head(changed_tiles).pos, Head(changed_tiles).tile),
            Tail(changed_tiles))

\* Trial with the is_check result dropped: every move counts as safe.
TrialUnchecked(g, b, pos, move_pos, color) ==
    LET pm == PerformMove([g EXCEPT !.board = b], pos, move_pos)
    IN  [panic |-> pm.panic, check |-> FALSE,
         board |-> IF pm.panic THEN b ELSE UndoPerformedMove(pm.board, pm.changed_tiles)]

\* Trial with is_check asked about the other color's king.
TrialOfOtherKing(g, b, pos, move_pos, color) ==
    LET cur == [g EXCEPT !.board = b]
        pm == PerformMove(cur, pos, move_pos)
    IN  IF pm.panic THEN [panic |-> TRUE, check |-> FALSE, board |-> b]
        ELSE [panic |-> FALSE,
              check |-> IsCheck([cur EXCEPT !.board = pm.board], Opposite(color)),
              board |-> UndoPerformedMove(pm.board, pm.changed_tiles)]

\* One pass of the retain closure of get_legal_moves on board `b`: perform,
\* is_check, undo.
Trial(g, b, pos, move_pos, color) ==
    LET cur == [g EXCEPT !.board = b]
        pm == PerformMove(cur, pos, move_pos)
    IN  IF pm.panic THEN [panic |-> TRUE, check |-> FALSE, board |-> b]
        ELSE [panic |-> FALSE,
              check |-> IsCheck([cur EXCEPT !.board = pm.board], color),
              board |-> UndoPerformedMove(pm.board, pm.changed_tiles)]

Outcome(result, moveset, b) == [result |-> result, moveset |-> moveset, board |-> b]

\* The trials of the moves still to visit on board `b`.
Trials(g, b, pos, color, remaining) ==
    [m \in remaining |-> Trial(g, b, pos, m, color)]

\* The moves whose trial leaves the board changed.
Changing(trial, b) ==
    {m \in DOMAIN trial : ~trial[m].panic /\ trial[m].board # b}

\* The moves of `group` the closure keeps.
Kept(trial, group) == {m \in group : ~trial[m].check}

\* The retain loop of get_legal_moves. The set is visited in an unspecified
\* order; the order matters only when a trial leaves the board changed, so
\* the moves whose trial restores the board are taken in groups between the
\* trials that do not.
RECURSIVE Retain(_, _, _, _, _, _)
RetainFrom(g, b, pos, color, remaining, kept, trial, changing) ==
    IF \E m \in remaining : trial[m].panic
    THEN {Outcome("Panic", {}, b)}
    ELSE IF changing = {}
    THEN {Outcome("Ok", kept \cup Kept(trial, remaining), b)}
    ELSE UNION {
            Retain(g, trial[gc[2]].board, pos, color,
                   remaining \ (gc[1] \cup {gc[2]}),
                   kept \cup Kept(trial, gc[1] \cup {gc[2]})) :
            gc \in (SUBSET (remaining \ changing)) \X changing}

RetainOn(g, b, pos, color, remaining, kept, trial) ==
    RetainFrom(g, b, pos, color, remaining, kept, trial, Changing(trial, b))

Retain(g, b, pos, color, remaining, kept) ==
    RetainOn(g, b, pos, color, remaining, kept, Trials(g, b, pos, color, remaining))

\* get_legal_moves: the outcomes the call can have. result is "Ok" with the
\* moveset, "NoTile", "NotCurrentTurn", or "Panic"; board is the board the
\* call leaves behind.
GetLegalMoves(g, pos) ==
    LET tile == GetTile(g.board, pos)
    IN  IF tile = None THEN {Outcome("NoTile", {}, g.board)}
        ELSE IF tile.color # g.current_turn
        THEN {Outcome("NotCurrentTurn", {}, g.board)}
        ELSE Retain(g, g.board, pos, tile.color,
                    GetPseudoLegalMoves(g, pos, TRUE), {})

\* CastlingAvailability
Availability(k, q) == [kingside |-> k, queenside |-> q]

\* move_piece: the halfmove clock after the move.
ClockAfter(g, pm) == IF pm.had_capture THEN 0 ELSE g.halfmove_clock + 1

\* EnPassantTargetAfter without the unconditional clearing.
EnPassantTargetKept(g, tile, from, to) ==
    IF tile.piece = "Pawn" /\ AbsDiff(from.rank, to.rank) = 2
    THEN New(from.file, from.rank + (IF to.rank > from.rank THEN 1 ELSE -1))
    ELSE g.en_passant_target

\* EnPassantTargetAfter naming the pawn's square instead of the passed one.
EnPassantTargetOnPawn(g, tile, from, to) ==
    IF tile.piece = "Pawn" /\ AbsDiff(from.rank, to.rank) = 2
    THEN to
    ELSE NonePos

\* move_piece: the en passant target after the move: cleared, then set to
\* the passed square when a pawn changed rank by two.
EnPassantTargetAfter(g, tile, from, to) ==
    LET dir == IF to.rank > from.rank THEN 1 ELSE -1
        rank == from.rank + dir
    IN  IF tile.piece = "Pawn" /\ AbsDiff(from.rank, to.rank) = 2 /\ rank >= 0
        THEN New(from.file, rank)
        ELSE NonePos

\* CastlingAfter with the flanks of the two rook files exchanged.
CastlingAfterSwapped(av, tile, from) ==
    LET starting_rank == IF tile.color = "White" THEN 0 ELSE 7
    IN  IF tile.piece = "King"
        THEN Availability(FALSE, FALSE)
        ELSE IF tile.piece = "Rook" /\ from.rank = starting_rank
        THEN Availability(av.kingside /\ from.file # 0, av.queenside /\ from.file # 7)
        ELSE av

\* move_piece: the mover's castling availability `av` after the move.
CastlingAfter(av, tile, from) ==
    LET starting_rank == IF tile.color = "White" THEN 0 ELSE 7
    IN  IF tile.piece = "King"
        THEN Availability(FALSE, FALSE)
        ELSE IF tile.piece = "Rook" /\ from.rank = starting_rank
        THEN Availability(av.kingside /\ from.file # 7, av.queenside /\ from.file # 0)
        ELSE av

\* PromotionAfter asking for a promotion of any piece on the last rank.
PromotionAfterAnyPiece(g, tile, to) ==
    LET last_rank == IF tile.color = "White" THEN 7 ELSE 0
    IN  IF to.rank = last_rank THEN to ELSE g.promotion_required

\* move_piece: the pending promotion after the move.
PromotionAfter(g, tile, to) ==
    LET last_rank == IF tile.color = "White" THEN 7 ELSE 0
    IN  IF to.rank = last_rank /\ tile.piece = "Pawn" THEN to ELSE g.promotion_required

\* FullmoveAfter counting every move.
FullmoveAfterEveryMove(g) == g.fullmove_number + 1

\* move_piece: the fullmove number after the move.
FullmoveAfter(g) ==
    IF g.current_turn = "Black" THEN g.fullmove_number + 1 ELSE g.fullmove_number

\* TurnAfter with the flip left out.
TurnAfterKept(g) == g.current_turn

\* move_piece: the turn after the move.
TurnAfter(g) == Opposite(g.current_turn)

\* The state updates of move_piece after perform_move, for the tile that
\* moved and the PerformedMove record `pm`.
UpdateState(g, tile, from, to, pm) ==
    [board |-> pm.board,
     current_turn |-> TurnAfter(g),
     white_castling |-> IF tile.color = "White"
                        THEN CastlingAfter(g.white_castling, tile, from)
                        ELSE g.white_castling,
     black_castling |-> IF tile.color = "Black"
                        THEN CastlingAfter(g.black_castling, tile, from)
                        ELSE g.black_castling,
     en_passant_target |-> EnPassantTargetAfter(g, tile, from, to),
     promotion_required |-> PromotionAfter(g, tile, to),
     halfmove_clock |-> ClockAfter(g, pm),
     fullmove_number |-> FullmoveAfter(g)]

Returned(result, g) == [result |-> result, game |-> g]

\* move_piece after its get_legal_moves call had the outcome o: the value
\* returned ("Ok", an error, or "Panic") and the game the call leaves behind.
MovePieceAfter(g, from, to, o) ==
    IF o.result # "Ok" THEN Returned(o.result, g)
    ELSE LET g1 == [g EXCEPT !.board = o.board]
         IN  IF to \notin o.moveset THEN Returned("InvalidMove", g1)
             ELSE LET tile == GetTile(g1.board, from)
                      pm == PerformMove(g1, from, to)
                  IN  IF tile = None \/ pm.panic THEN Returned("Panic", g1)
                      ELSE Returned("Ok", UpdateState(g1, tile, from, to, pm))

\* move_piece: the outcomes the call can have.
MovePiece(g, from, to) ==
    {MovePieceAfter(g, from, to, o) : o \in GetLegalMoves(g, from)}

\* Promote handing the turn back to the side that promoted.
PromoteFlipsTurn(g, kind) ==
    LET pos == g.promotion_required
        tile == GetTile(g.board, pos)
    IN  [g EXCEPT !.board = SetTile(g.board, pos, NewTile(kind, tile.color)),
                  !.promotion_required = NonePos,
                  !.current_turn = tile.color]

\* promote: replace the tile on the pending square by `kind` of the same
\* color and clear the pending promotion.
Promote(g, kind) ==
    LET pos == g.promotion_required
        tile == GetTile(g.board, pos)
    IN  [g EXCEPT !.board = SetTile(g.board, pos, NewTile(kind, tile.color)),
                  !.promotion_required = NonePos]

\* ------------------------------------------------------------------------
\* Text: a char is its code point, a string the sequence of its chars
\* ------------------------------------------------------------------------

\* The characters the model writes by name, with their code points.
AsciiTable ==
    {<<" ", 32>>, <<"-", 45>>, <<"/", 47>>, <<"0", 48>>, <<"1", 49>>, <<"2", 50>>,
     <<"3", 51>>, <<"4", 52>>, <<"5", 53>>, <<"6", 54>>, <<"7", 55>>, <<"8", 56>>,
     <<"9", 57>>, <<"B", 66>>, <<"K", 75>>, <<"N", 78>>, <<"P", 80>>, <<"Q", 81>>,
     <<"R", 82>>, <<"a", 97>>, <<"b", 98>>, <<"c", 99>>, <<"d", 100>>, <<"e", 101>>,
     <<"f", 102>>, <<"g", 103>>, <<"h", 104>>, <<"k", 107>>, <<"n", 110>>,
     <<"p", 112>>, <<"q", 113>>, <<"r", 114>>, <<"w", 119>>, <<"x", 120>>}

Ascii(c) == (CHOOSE pair \in AsciiTable : pair[1] = c)[2]

\* The string written as a tuple of its characters.
Str(chars) == [i \in DOMAIN chars |-> Ascii(chars[i])]

\* The builds of the crate: overflow checks on (debug) or off (release).
Builds == {"debug", "release"}

\* char::to_digit(10): the digit's value, or None.
ToDigit(char) == IF char \in Ascii("0")..Ascii("9") THEN {char - Ascii("0")} ELSE {}

\* char::to_ascii_lowercase and char::to_ascii_uppercase.
ToAsciiLowercase(char) == IF char \in 65..90 THEN char + 32 ELSE char

ToAsciiUppercase(char) == IF char \in 97..122 THEN char - 32 ELSE char

\* ToString of an unsigned integer: its decimal digits.
RECURSIVE ToStringOfInt(_)
ToStringOfInt(n) ==
    IF n < 10 THEN <<Ascii("0") + n>>
    ELSE Append(ToStringOfInt(n \div 10), Ascii("0") + (n % 10))

\* PieceType::char: the lowercase letter of a piece.
PieceChar(piece) ==
    CASE piece = "King" -> Ascii("k")
      [] piece = "Queen" -> Ascii("q")
      [] piece = "Rook" -> Ascii("r")
      [] piece = "Bishop" -> Ascii("b")
      [] piece = "Knight" -> Ascii("n")
      [] piece = "Pawn" -> Ascii("p")

\* PieceType::from_char of a char of a string: Result<PieceType, ()> as a
\* set of at most one piece.
PieceFromChar(char) ==
    {piece \in {"King", "Queen", "Rook", "Bishop", "Knight", "Pawn"} :
        PieceChar(piece) = char}

\* BoardPos::file_char.
FileChar(pos) == Ascii("a") + pos.file

\* PosToString writing the rank as stored, counted from 0.
PosToStringRankFromZero(pos) == <<FileChar(pos)>> \o ToStringOfInt(pos.rank)

\* Display for BoardPos: the file letter and the rank counted from 1.
PosToString(pos) == <<FileChar(pos)>> \o ToStringOfInt(pos.rank + 1)

\* The outcome of a u8 subtraction a - b: the difference, or on overflow a
\* panic in a debug build and the wrapped value in a release build.
SubU8(a, b, build) ==
    IF a >= b THEN [panic |-> FALSE, value |-> a - b]
    ELSE IF build = "debug" THEN [panic |-> TRUE, value |-> 0]
    ELSE [panic |-> FALSE, value |-> (a - b) % 256]

\* The outcome of an i8 addition a + b: the sum, or on overflow a panic in a
\* debug build and the wrapped value in a release build.
AddI8(a, b, build) ==
    LET sum == a + b
    IN  IF sum \in -128..127 THEN [panic |-> FALSE, wrapped |-> FALSE, value |-> sum]
        ELSE IF build = "debug" THEN [panic |-> TRUE, wrapped |-> FALSE, value |-> 0]
        ELSE [panic |-> FALSE, wrapped |-> TRUE, value |-> ((sum + 128) % 256) - 128]

\* BoardPos::offset with its deltas of type i8: "Some" with the position,
\* "None", or "Panic"; `wrapped` tells that an addition wrapped around.
OffsetI8(pos, delta_file, delta_rank, build) ==
    LET file == AddI8(pos.file, delta_file, build)
        rank == AddI8(pos.rank, delta_rank, build)
        wrapped == file.wrapped \/ rank.wrapped
    IN  IF file.panic \/ rank.panic
        THEN [result |-> "Panic", pos |-> NonePos, wrapped |-> FALSE]
        ELSE IF file.value < 0 \/ file.value > 7 \/ rank.value < 0 \/ rank.value > 7
        THEN [result |-> "None", pos |-> NonePos, wrapped |-> wrapped]
        ELSE [result |-> "Some", pos |-> New(file.value, rank.value), wrapped |-> wrapped]

\* BoardPos::from_str: "Ok" with the position, "Err" with the message, or
\* "Panic". The fields are stored as computed, without a range check.
PosFromStr(s, build) ==
    IF Len(s) < 2 THEN [result |-> "Err", msg |-> "String too short.", pos |-> NonePos]
    ELSE IF Len(s) > 2
    THEN [result |-> "Err", msg |-> "String too long.", pos |-> NonePos]
    ELSE IF ToDigit(s[2]) = {}
    THEN [result |-> "Err", msg |-> "Second character must be a digit.", pos |-> NonePos]
    ELSE LET digit == CHOOSE d \in ToDigit(s[2]) : TRUE
             rank == SubU8(digit, 1, build)
             file == SubU8(s[1] % 256, Ascii("a"), build)
         IN  IF rank.panic \/ file.panic
             THEN [result |-> "Panic", msg |-> "", pos |-> NonePos]
             ELSE [result |-> "Ok", msg |-> "", pos |-> New(file.value, rank.value)]

\* to_fen_placement_data, the files from `file` on of one rank, after
\* empty_count empty squares.
RECURSIVE RankToFen(_, _, _, _)
RankToFen(b, rank, file, empty_count) ==
    IF file > 7
    THEN IF empty_count > 0 THEN ToStringOfInt(empty_count) ELSE <<>>
    ELSE LET tile == GetTile(b, New(file, rank))
         IN  IF tile = None THEN RankToFen(b, rank, file + 1, empty_count + 1)
             ELSE (IF empty_count > 0 THEN ToStringOfInt(empty_count) ELSE <<>>)
                  \o <<IF tile.color = "White"
                       THEN ToAsciiUppercase(PieceChar(tile.piece))
                       ELSE PieceChar(tile.piece)>>
                  \o RankToFen(b, rank, file + 1, 0)

\* to_fen_placement_data, the ranks from `rank` down, each followed by '/'.
RECURSIVE RanksToFen(_, _)
RanksToFen(b, rank) ==
    IF rank < 0 THEN <<>>
    ELSE RankToFen(b, rank, 0, 0) \o <<Ascii("/")>> \o RanksToFen(b, rank - 1)

\* ToFenPlacementData keeping the trailing '/'.
ToFenPlacementDataUnpopped(b) == RanksToFen(b, 7)

\* Board::to_fen_placement_data: the ranks 8 to 1, the trailing '/' popped.
ToFenPlacementData(b) ==
    LET str == RanksToFen(b, 7)
    IN  SubSeq(str, 1, Len(str) - 1)

\* The Result of from_fen_placement_data: "Ok" with the board, the error
\* kind, or "Panic".
Parsed(result, b) == [result |-> result, board |-> b]

\* from_fen_placement_data inside its loop: the board and the cursor
\* (file, rank) so far, and the value returned early, if any.
Cursor(b, file, rank, returned) ==
    [board |-> b, file |-> file, rank |-> rank, returned |-> returned]

\* One turn of the loop of from_fen_placement_data, for the char `char`.
PlacementChar(at, char, build) ==
    IF at.returned # "None" THEN at
    ELSE IF ToDigit(char) # {}
    THEN LET skip == CHOOSE d \in ToDigit(char) : TRUE
         IN  IF skip > 8 \/ at.file > 8
             THEN [at EXCEPT !.returned = "LargeSkip"]
             ELSE [at EXCEPT !.file = at.file + skip]
    ELSE IF char = Ascii("/")
    THEN LET next == SubU8(at.rank, 1, build)
         IN  IF next.panic THEN [at EXCEPT !.returned = "Panic"]
             ELSE [at EXCEPT !.file = 0, !.rank = next.value]
    ELSE LET lowercase == ToAsciiLowercase(char)
             is_lowercase == char = lowercase
             color == IF is_lowercase THEN "Black" ELSE "White"
         IN  IF PieceFromChar(lowercase) = {}
             THEN [at EXCEPT !.returned = "InvalidPiece"]
             ELSE IF at.file > 7 \/ at.rank > 7
             THEN [at EXCEPT !.returned = "OutsideBoard"]
             ELSE Cursor(SetTile(at.board, New(at.file, at.rank),
                                 NewTile(CHOOSE piece \in PieceFromChar(lowercase) : TRUE,
                                         color)),
                         at.file + 1, at.rank, "None")

\* The loop of from_fen_placement_data over the chars i..j of `fen`: over
\* the first half of them, then from there over the second half.
RECURSIVE PlacementChars(_, _, _, _, _)
PlacementChars(at, fen, i, j, build) ==
    IF i > j THEN at
    ELSE IF i = j THEN PlacementChar(at, fen[i], build)
    ELSE LET mid == (i + j) \div 2
         IN  CHOOSE done \in {PlacementChars(half, fen, mid + 1, j, build) :
                                half \in {PlacementChars(at, fen, i, mid, build)}} : TRUE

\* Board::from_fen_placement_data.
FromFenPlacementData(fen, build) ==
    LET at == PlacementChars(Cursor(Empty, 0, 7, "None"), fen, 1, Len(fen), build)
    IN  Parsed(IF at.returned = "None" THEN "Ok" ELSE at.returned, at.board)

\* The castling field of to_fen: the letters of the rights held, or '-'.
CastlingToFen(g) ==
    LET letters == (IF g.white_castling.kingside THEN Str(<<"K">>) ELSE <<>>)
                   \o (IF g.white_castling.queenside THEN Str(<<"Q">>) ELSE <<>>)
                   \o (IF g.black_castling.kingside THEN Str(<<"k">>) ELSE <<>>)
                   \o (IF g.black_castling.queenside THEN Str(<<"q">>) ELSE <<>>)
    IN  IF letters = <<>> THEN Str(<<"-">>) ELSE letters

\* Game::to_fen: placement, turn, castling, en passant target, and "0 0".
ToFen(g) ==
    ToFenPlacementData(g.board)
    \o Str(<<" ">>) \o Str(<<IF g.current_turn = "White" THEN "w" ELSE "b">>)
    \o Str(<<" ">>) \o CastlingToFen(g)
    \o Str(<<" ">>)
    \o (IF g.en_passant_target # NonePos THEN PosToString(g.en_passant_target)
        ELSE Str(<<"-">>))
    \o Str(<<" ">>) \o Str(<<"0", " ", "0">>)

\* str::split_whitespace: the non-empty runs of chars between spaces.
RECURSIVE SplitWhitespace(_)
SplitWhitespace(s) ==
    IF s = <<>> THEN <<>>
    ELSE IF Head(s) = Ascii(" ") THEN SplitWhitespace(Tail(s))
    ELSE LET stops == {i \in DOMAIN s : s[i] = Ascii(" ")}
             stop == IF stops = {} THEN Len(s) + 1
                     ELSE CHOOSE i \in stops : \A j \in stops : i <= j
         IN  <<SubSeq(s, 1, stop - 1)>> \o SplitWhitespace(SubSeq(s, stop, Len(s)))

\* str::contains of one char.
Contains(s, c) == \E i \in DOMAIN s : s[i] = Ascii(c)

\* A clock field of the position string read as a decimal number; a field
\* that is no number reads as 0.
RECURSIVE ClockOfField(_)
ClockOfField(s) ==
    IF s = <<>> \/ \E i \in DOMAIN s : ToDigit(s[i]) = {} THEN 0
    ELSE IF Len(s) = 1 THEN s[1] - Ascii("0")
    ELSE 10 * ClockOfField(SubSeq(s, 1, Len(s) - 1)) + (s[Len(s)] - Ascii("0"))

\* The game of a Result that is no Ok: an empty board.
NoGame ==
    [board |-> Empty,
     current_turn |-> "White",
     white_castling |-> Availability(FALSE, FALSE),
     black_castling |-> Availability(FALSE, FALSE),
     en_passant_target |-> NonePos,
     promotion_required |-> NonePos,
     halfmove_clock |-> 0,
     fullmove_number |-> 0]

\* The Result of from_fen: "Ok" with the game, the error kind, or "Panic".
Imported(result, g) == [result |-> result, game |-> g]

\* Game::from_fen of the string `fen`.
FromFenText(fen, build) ==
    LET iter == SplitWhitespace(fen)
        placed == IF Len(iter) >= 1 THEN FromFenPlacementData(iter[1], build)
                  ELSE Parsed("TooShort", Empty)
        target == IF Len(iter) >= 4 /\ iter[4] # Str(<<"-">>)
                  THEN PosFromStr(iter[4], build)
                  ELSE [result |-> "Ok", msg |-> "", pos |-> NonePos]
        none == NoGame
    IN  IF placed.result # "Ok" THEN Imported(placed.result, none)
        ELSE IF Len(iter) < 2 THEN Imported("TooShort", none)
        ELSE IF iter[2] \notin {Str(<<"w">>), Str(<<"b">>)} THEN Imported("InvalidTurn", none)
        ELSE IF Len(iter) < 4 THEN Imported("TooShort", none)
        ELSE IF target.result = "Panic" THEN Imported("Panic", none)
        ELSE IF target.result = "Err" THEN Imported("InvalidEnPassantTarget", none)
        ELSE IF Len(iter) < 6 THEN Imported("TooShort", none)
        ELSE Imported("Ok",
                 [board |-> placed.board,
                  current_turn |-> IF iter[2] = Str(<<"w">>) THEN "White" ELSE "Black",
                  white_castling |-> Availability(Contains(iter[3], "K"), Contains(iter[3], "Q")),
                  black_castling |-> Availability(Contains(iter[3], "k"), Contains(iter[3], "q")),
                  en_passant_target |-> target.pos,
                  promotion_required |-> NonePos,
                  halfmove_clock |-> ClockOfField(iter[5]),
                  fullmove_number |-> ClockOfField(iter[6])])

\* ------------------------------------------------------------------------
\* Positions the game is constructed in
\* ------------------------------------------------------------------------

\* Game::from_fen of a placement, a turn, the four castling letters, the en
\* passant target and the clocks.
FromFen(rows, turn, wk, wq, bk, bq, target, halfmove, fullmove) ==
    [board |-> BoardOfRows(rows),
     current_turn |-> turn,
     white_castling |-> Availability(wk, wq),
     black_castling |-> Availability(bk, bq),
     en_passant_target |-> target,
     promotion_required |-> NonePos,
     halfmove_clock |-> halfmove,
     fullmove_number |-> fullmove]

R8(a, b, c, d, e, f, g, h) == <<a, b, c, d, e, f, g, h>>

EmptyRow == R8(".", ".", ".", ".", ".", ".", ".", ".")

\* Game::new: rnbqkbnr/pppppppp/8/8/8/8/PPPPPPPP/RNBQKBNR w KQkq - 0 1
NewGame ==
    FromFen(<<R8("r", "n", "b", "q", "k", "b", "n", "r"),
              R8("p", "p", "p", "p", "p", "p", "p", "p"),
              EmptyRow, EmptyRow, EmptyRow, EmptyRow,
              R8("P", "P", "P", "P", "P", "P", "P", "P"),
              R8("R", "N", "B", "Q", "K", "B", "N", "R")>>,
            "White", TRUE, TRUE, TRUE, TRUE, NonePos, 0, 1)

\* r3k2r/8/8/8/8/8/8/R3K2R w KQkq - 0 1
CastlingGame ==
    FromFen(<<R8("r", ".", ".", ".", "k", ".", ".", "r"),
              EmptyRow, EmptyRow, EmptyRow, EmptyRow, EmptyRow, EmptyRow,
              R8("R", ".", ".", ".", "K", ".", ".", "R")>>,
            "White", TRUE, TRUE, TRUE, TRUE, NonePos, 0, 1)

\* r3k2r/2P5/8/8/8/8/8/4K3 b kq - 0 1: a White pawn stands diagonally behind
\* the square Black's king crosses towards the queenside.
BlackCastlingGame ==
    FromFen(<<R8("r", ".", ".", ".", "k", ".", ".", "r"),
              R8(".", ".", "P", ".", ".", ".", ".", "."),
              EmptyRow, EmptyRow, EmptyRow, EmptyRow, EmptyRow,
              R8(".", ".", ".", ".", "K", ".", ".", ".")>>,
            "Black", FALSE, FALSE, TRUE, TRUE, NonePos, 0, 1)

\* 4k3/8/8/8/2p5/8/1P6/4K3 w - - 0 1
EnPassantGame ==
    FromFen(<<R8(".", ".", ".", ".", "k", ".", ".", "."),
              EmptyRow, EmptyRow, EmptyRow,
              R8(".", ".", "p", ".", ".", ".", ".", "."),
              EmptyRow,
              R8(".", "P", ".", ".", ".", ".", ".", "."),
              R8(".", ".", ".", ".", "K", ".", ".", ".")>>,
            "White", FALSE, FALSE, FALSE, FALSE, NonePos, 0, 1)

\* 8/8/8/8/1R2p1k1/8/3P4/4K3 w - - 0 1
DiscoveryGame ==
    FromFen(<<EmptyRow, EmptyRow, EmptyRow, EmptyRow,
              R8(".", "R", ".", ".", "p", ".", "k", "."),
              EmptyRow,
              R8(".", ".", ".", "P", ".", ".", ".", "."),
              R8(".", ".", ".", ".", "K", ".", ".", ".")>>,
            "White", FALSE, FALSE, FALSE, FALSE, NonePos, 0, 1)

\* k7/4r3/8/8/4R3/8/4K3/8 w - - 0 1
PinnedGame ==
    FromFen(<<R8("k", ".", ".", ".", ".", ".", ".", "."),
              R8(".", ".", ".", ".", "r", ".", ".", "."),
              EmptyRow, EmptyRow,
              R8(".", ".", ".", ".", "R", ".", ".", "."),
              EmptyRow,
              R8(".", ".", ".", ".", "K", ".", ".", "."),
              EmptyRow>>,
            "White", FALSE, FALSE, FALSE, FALSE, NonePos, 0, 1)

\* 4k3/8/8/8/2b5/8/3PK2P/8 w - - 0 1
CheckGame ==
    FromFen(<<R8(".", ".", ".", ".", "k", ".", ".", "."),
              EmptyRow, EmptyRow, EmptyRow,
              R8(".", ".", "b", ".", ".", ".", ".", "."),
              EmptyRow,
              R8(".", ".", ".", "P", "K", ".", ".", "P"),
              EmptyRow>>,
            "White", FALSE, FALSE, FALSE, FALSE, NonePos, 0, 1)

\* 4k3/2P5/8/8/8/8/8/4K3 w - - 0 1
PromotionGame ==
    FromFen(<<R8(".", ".", ".", ".", "k", ".", ".", "."),
              R8(".", ".", "P", ".", ".", ".", ".", "."),
              EmptyRow, EmptyRow, EmptyRow, EmptyRow, EmptyRow,
              R8(".", ".", ".", ".", "K", ".", ".", ".")>>,
            "White", FALSE, FALSE, FALSE, FALSE, NonePos, 0, 1)

\* 4k3/8/8/8/8/8/8/4KB1R w K - 0 1: the king's knight has left g1, the
\* bishop still stands on f1.
BishopHomeGame ==
    FromFen(<<R8(".", ".", ".", ".", "k", ".", ".", "."),
              EmptyRow, EmptyRow, EmptyRow, EmptyRow, EmptyRow, EmptyRow,
              R8(".", ".", ".", ".", "K", "B", ".", "R")>>,
            "White", TRUE, FALSE, FALSE, FALSE, NonePos, 0, 1)

\* 4k3/8/8/8/8/8/8/4KR1R w K - 0 1: the queen's rook has come round to f1,
\* king and king's rook have not moved.
RookBesideKingGame ==
    FromFen(<<R8(".", ".", ".", ".", "k", ".", ".", "."),
              EmptyRow, EmptyRow, EmptyRow, EmptyRow, EmptyRow, EmptyRow,
              R8(".", ".", ".", ".", "K", "R", ".", "R")>>,
            "White", TRUE, FALSE, FALSE, FALSE, NonePos, 0, 1)

\* 4k3/8/8/8/3p4/8/3P4/4K3 w - - 0 1: a pawn on its starting rank with an
\* enemy pawn two squares ahead of it.
PawnFacingGame ==
    FromFen(<<R8(".", ".", ".", ".", "k", ".", ".", "."),
              EmptyRow, EmptyRow, EmptyRow,
              R8(".", ".", ".", "p", ".", ".", ".", "."),
              EmptyRow,
              R8(".", ".", ".", "P", ".", ".", ".", "."),
              R8(".", ".", ".", ".", "K", ".", ".", ".")>>,
            "White", FALSE, FALSE, FALSE, FALSE, NonePos, 0, 1)

\* 4k3/8/8/8/8/8/8/4K1R1 w K - 0 1: the king's rook is gone, the queen's
\* rook has come round to g1, the king has not moved.
RookOnLandingGame ==
    FromFen(<<R8(".", ".", ".", ".", "k", ".", ".", "."),
              EmptyRow, EmptyRow, EmptyRow, EmptyRow, EmptyRow, EmptyRow,
              R8(".", ".", ".", ".", "K", ".", "R", ".")>>,
            "White", TRUE, FALSE, FALSE, FALSE, NonePos, 0, 1)

\* 7k/3p1q2/1b6/4P3/4K3/r7/8/8 b - - 0 1: after d7-d5 the White king is in
\* check, every square around it is covered, and the pawn on e5 can take
\* the checking pawn en passant.
EnPassantEscapeGame ==
    FromFen(<<R8(".", ".", ".", ".", ".", ".", ".", "k"),
              R8(".", ".", ".", "p", ".", "q", ".", "."),
              R8(".", "b", ".", ".", ".", ".", ".", "."),
              R8(".", ".", ".", ".", "P", ".", ".", "."),
              R8(".", ".", ".", ".", "K", ".", ".", "."),
              R8("r", ".", ".", ".", ".", ".", ".", "."),
              EmptyRow, EmptyRow>>,
            "Black", FALSE, FALSE, FALSE, FALSE, NonePos, 0, 1)

\* tests::prepare_moveset_test_at: an empty board with one White piece.
PrepareMovesetTestAt(piece, pos) ==
    [board |-> SetTile(Empty, pos, NewTile(piece, "White")),
     current_turn |-> "White",
     white_castling |-> Availability(FALSE, FALSE),
     black_castling |-> Availability(FALSE, FALSE),
     en_passant_target |-> NonePos,
     promotion_required |-> NonePos,
     halfmove_clock |-> 0,
     fullmove_number |-> 0]

\* tests::prepare_moveset_test: the piece stands on e4.
PrepareMovesetTest(piece) == PrepareMovesetTestAt(piece, New(4, 3))

\* 4k3/4P3/8/8/8/8/8/4K3 b - - 0 1: a White pawn stands straight ahead of
\* Black's king, and nothing else is near it.
PawnBeforeKingGame ==
    FromFen(<<R8(".", ".", ".", ".", "k", ".", ".", "."),
              R8(".", ".", ".", ".", "P", ".", ".", "."),
              EmptyRow, EmptyRow, EmptyRow, EmptyRow, EmptyRow,
              R8(".", ".", ".", ".", "K", ".", ".", ".")>>,
            "Black", FALSE, FALSE, FALSE, FALSE, NonePos, 0, 1)

\* The positions explored one ply less deep, for the number of their moves.
WidePositions ==
    {CastlingGame, BlackCastlingGame, DiscoveryGame, PinnedGame, BishopHomeGame,
     RookBesideKingGame, PawnFacingGame, RookOnLandingGame, EnPassantEscapeGame}

DeepPositions == {NewGame, CheckGame, EnPassantGame, PromotionGame}

\* The games of the moveset tests and of the attack queries, which are
\* queried and not played on.
QueriedPositions ==
    {PrepareMovesetTest("King"), PrepareMovesetTest("Knight"), PawnBeforeKingGame}

Positions == WidePositions \cup DeepPositions \cup QueriedPositions

\* ------------------------------------------------------------------------
\* The state machine
\* ------------------------------------------------------------------------

VARIABLES
    board,               \* Game.board
    current_turn,        \* Game.current_turn
    white_castling,      \* Game.white_castling
    black_castling,      \* Game.black_castling
    en_passant_target,   \* Game.en_passant_target
    promotion_required,  \* Game.promotion_required
    halfmove_clock,      \* Game.halfmove_clock
    fullmove_number,     \* Game.fullmove_number
    panicked,            \* the process aborted in a panic
    last,                \* the last call: its arguments, result and the game before it
    played,              \* the last successful move_piece and what followed it
    text,                \* the string the last call returned or was given
    start,               \* the game the run began with
    plies                \* successful move_piece calls the run may still make

vars == <<board, current_turn, white_castling, black_castling, en_passant_target,
          promotion_required, halfmove_clock, fullmove_number, panicked, last, played,
          text, start, plies>>

\* The Game value held in the variables.
Self ==
    [board |-> board,
     current_turn |-> current_turn,
     white_castling |-> white_castling,
     black_castling |-> black_castling,
     en_passant_target |-> en_passant_target,
     promotion_required |-> promotion_required,
     halfmove_clock |-> halfmove_clock,
     fullmove_number |-> fullmove_number]

\* The variables hold the Game value g after the step.
Becomes(g) ==
    /\ board' = g.board
    /\ current_turn' = g.current_turn
    /\ white_castling' = g.white_castling
    /\ black_castling' = g.black_castling
    /\ en_passant_target' = g.en_passant_target
    /\ promotion_required' = g.promotion_required
    /\ halfmove_clock' = g.halfmove_clock
    /\ fullmove_number' = g.fullmove_number

Call(op, from, to, kind, result, moveset, before) ==
    [op |-> op, from |-> from, to |-> to, kind |-> kind, result |-> result,
     moveset |-> moveset, before |-> before]

\* The last successful move_piece(from, to) and the tile it moved; whether
\* promote was called after it; whether some move_piece succeeded while a
\* promotion was pending; whether promote was called after such a move.
Played(moved, from, to, tile, promoted, unresolved, late) ==
    [moved |-> moved, from |-> from, to |-> to, tile |-> tile,
     promoted |-> promoted, unresolved |-> unresolved, late |-> late]

Init ==
    \E g \in Positions :
        /\ board = g.board
        /\ current_turn = g.current_turn
        /\ white_castling = g.white_castling
        /\ black_castling = g.black_castling
        /\ en_passant_target = g.en_passant_target
        /\ promotion_required = g.promotion_required
        /\ halfmove_clock = g.halfmove_clock
        /\ fullmove_number = g.fullmove_number
        /\ panicked = FALSE
        /\ last = Call("new", NonePos, NonePos, "None", "Ok", {}, g)
        /\ played = Played(FALSE, NonePos, NonePos, None, FALSE, FALSE, FALSE)
        /\ text = <<>>
        /\ start = g
        /\ plies = IF g \in QueriedPositions THEN 0
                   ELSE IF g \in WidePositions THEN MaxPly - 1 ELSE MaxPly

\* A call that returned an error or a moveset and left the game as it was
\* has the successors of the state it was made in; the calls after it are
\* explored from that state.
Live ==
    /\ ~panicked
    /\ \/ last.op \in {"new", "promote"}
       \/ last.op = "move_piece" /\ last.result = "Ok"
       \/ last.before # Self

\* The squares the caller names in calls that are rejected: a1, e1, e4, e8.
\* A call that succeeds may name any square.
Probes == {New(0, 0), New(4, 0), New(4, 3), New(4, 7)}

\* The squares a call names: any square holding a tile, and the probes.
Named == {pos \in BoardPos : pos \in Probes \/ GetTile(board, pos) # None}

\* The step of a move_piece(from, to) call that returns r.
MovePieceReturns(from, to, r) ==
    /\ r.result = "Ok" => plies > 0
    /\ r.result \in {"Ok", "Panic"} \/ from \in Probes
    /\ Becomes(r.game)
    /\ panicked' = (r.result = "Panic")
    /\ last' = Call("move_piece", from, to, "None", r.result, {}, Self)
    /\ played' = IF r.result = "Ok"
                 THEN Played(TRUE, from, to, GetTile(board, from), FALSE,
                             played.unresolved \/ promotion_required # NonePos,
                             played.late)
                 ELSE played
    /\ UNCHANGED <<text, start>>
    /\ plies' = IF r.result = "Ok" THEN plies - 1 ELSE plies

\* move_piece(from, to) by the caller, its get_legal_moves(from) having the
\* outcome o: for every `to` the call accepts and for the probed ones.
MovePieceCall(from, o) ==
    \E to \in o.moveset \cup Probes :
        MovePieceReturns(from, to, MovePieceAfter(Self, from, to, o))

\* get_legal_moves(pos) by the caller, with the outcome o.
GetLegalMovesCall(pos, o) ==
    /\ o.result \in {"Ok", "Panic"} \/ pos \in Probes
    /\ Becomes([Self EXCEPT !.board = o.board])
    /\ panicked' = (o.result = "Panic")
    /\ last' = Call("get_legal_moves", pos, NonePos, "None", o.result, o.moveset, Self)
    /\ played' = played
    /\ UNCHANGED <<text, start>>
    /\ plies' = plies

\* promote(kind) by the caller while a promotion is pending.
PromoteCall(kind) ==
    /\ Live
    /\ promotion_required # NonePos
    /\ Becomes(Promote(Self, kind))
    /\ panicked' = FALSE
    /\ last' = Call("promote", promotion_required, NonePos, kind, "Ok", {}, Self)
    /\ played' = [played EXCEPT !.promoted = TRUE, !.late = @ \/ played.unresolved]
    /\ UNCHANGED <<text, start>>
    /\ plies' = plies

\* is_checkmate(current_turn), as get_state runs it for the side to move.
IsCheckmateCall ==
    /\ Live
    /\ last' = Call("is_checkmate", NonePos, NonePos, "None",
                    IF IsCheckmate(Self, current_turn) THEN "Checkmate" ELSE "NotCheckmate",
                    {}, Self)
    /\ UNCHANGED <<board, current_turn, white_castling, black_castling,
                   en_passant_target, promotion_required, halfmove_clock,
                   fullmove_number, panicked, played, text, start, plies>>

\* to_fen() by the caller.
ToFenCall ==
    /\ Live
    /\ last' = Call("to_fen", NonePos, NonePos, "None", "Ok", {}, Self)
    /\ text' = ToFen(Self)
    /\ UNCHANGED <<board, current_turn, white_castling, black_castling,
                   en_passant_target, promotion_required, halfmove_clock,
                   fullmove_number, panicked, played, start, plies>>

\* A call naming `pos`: a query of the square or a move from it. move_piece
\* begins with the get_legal_moves call that the query makes.
CallOn(pos) ==
    /\ Live
    /\ \E o \in GetLegalMoves(Self, pos) :
          \/ GetLegalMovesCall(pos, o)
          \/ MovePieceCall(pos, o)

Next ==
    \/ \E pos \in Named : CallOn(pos)
    \/ \E kind \in {"Queen", "Rook", "Bishop", "Knight"} : PromoteCall(kind)
    \/ IsCheckmateCall
    \/ ToFenCall

Spec == Init /\ [][Next]_vars

\* ------------------------------------------------------------------------
\* The functions on text and positions, called on their own
\* ------------------------------------------------------------------------

\* The rank strings the placement strings handed to the parser are made of:
\* well-formed ones, ones with two digits in a row, and malformed ones.
RankPool ==
    {Str(<<"r", "n", "b", "q", "k", "b", "n", "r">>), Str(<<"8">>),
     Str(<<"4", "P", "3">>), Str(<<"R", "3", "K", "2", "R">>),
     Str(<<"1", "p", "1", "p", "1", "p", "1", "p">>), Str(<<"p", "7">>),
     Str(<<"7", "P">>), Str(<<"4", "4">>), Str(<<"1", "1", "p", "5">>),
     Str(<<"9">>), Str(<<"4", "x", "3">>), Str(<<"7", "p", "p">>),
     Str(<<"8", "1">>), Str(<<"0", "p", "7">>), Str(<<"3", "k">>), <<>>}

\* The rank strings joined by '/'.
RECURSIVE JoinRanks(_)
JoinRanks(ranks) ==
    IF Len(ranks) = 1 THEN ranks[1]
    ELSE ranks[1] \o Str(<<"/">>) \o JoinRanks(Tail(ranks))

\* Placement strings of MinRanks to MaxRanks ranks: the first and the last
\* rank string from the pool, "8" between them.
PlacementInputs ==
    {JoinRanks(<<first>> \o [i \in 1..(n - 2) |-> Str(<<"8">>)] \o <<final>>) :
        first \in RankPool, final \in RankPool, n \in MinRanks..MaxRanks}

\* The strings handed to BoardPos::from_str: the text of every position,
\* and strings that are the text of none.
PosInputs ==
    {PosToString(pos) : pos \in BoardPos}
    \cup {<<>>, Str(<<"a">>), Str(<<"a", "1", "1">>), Str(<<"a", "x">>),
          Str(<<"a", "0">>), Str(<<"a", "9">>), Str(<<"x", "1">>), Str(<<"K", "1">>)}

\* The i8 deltas handed to BoardPos::offset.
DeltaInputs == {-128, -8, -7, -2, -1, 0, 1, 2, 7, 8, 120, 121, 127}

\* The positions offset is called on: corners, edges and inner squares.
OffsetInputs == {pos \in BoardPos : pos.file \in {0, 1, 7} /\ pos.rank \in {0, 3, 7}}

\* Nothing has been called yet: the game is that of Game::new.
InitText ==
    /\ board = NewGame.board
    /\ current_turn = NewGame.current_turn
    /\ white_castling = NewGame.white_castling
    /\ black_castling = NewGame.black_castling
    /\ en_passant_target = NewGame.en_passant_target
    /\ promotion_required = NewGame.promotion_required
    /\ halfmove_clock = NewGame.halfmove_clock
    /\ fullmove_number = NewGame.fullmove_number
    /\ panicked = FALSE
    /\ last = Call("new", NonePos, NonePos, "None", "Ok", {}, NewGame)
    /\ played = Played(FALSE, NonePos, NonePos, None, FALSE, FALSE, FALSE)
    /\ text = <<>>
    /\ start = NewGame
    /\ plies = 0

\* The functions are pure: each call is explored on its own, as the first
\* call made.
Fresh == last.op = "new"

\* The variables a call of a function on text or positions leaves alone.
TextFrame ==
    UNCHANGED <<current_turn, white_castling, black_castling, en_passant_target,
                promotion_required, halfmove_clock, fullmove_number, played, start,
                plies>>

\* Board::from_fen_placement_data(fen) in the build `build`; `board` becomes
\* the board returned.
FromFenPlacementDataCall(fen, build) ==
    LET r == FromFenPlacementData(fen, build)
    IN  /\ Fresh
        /\ last' = Call("from_fen_placement_data", NonePos, NonePos, build, r.result,
                        {}, Self)
        /\ text' = fen
        /\ board' = IF r.result = "Ok" THEN r.board ELSE board
        /\ panicked' = (r.result = "Panic")
        /\ TextFrame

\* s.parse::<BoardPos>() in the build `build`; `to` is the position returned.
PosFromStrCall(s, build) ==
    LET r == PosFromStr(s, build)
    IN  /\ Fresh
        /\ last' = Call("from_str", NonePos, r.pos, build, r.result, {}, Self)
        /\ text' = s
        /\ panicked' = (r.result = "Panic")
        /\ board' = board
        /\ TextFrame

\* pos.offset(delta_file, delta_rank) in the build `build`; `to` is the
\* position returned, `moveset` holds the deltas.
OffsetCall(pos, delta_file, delta_rank, build) ==
    LET r == OffsetI8(pos, delta_file, delta_rank, build)
    IN  /\ Fresh
        /\ last' = Call("offset", pos, r.pos, build,
                        IF r.wrapped THEN "Wrapped" ELSE r.result,
                        {<<delta_file, delta_rank>>}, Self)
        /\ text' = <<>>
        /\ panicked' = (r.result = "Panic")
        /\ board' = board
        /\ TextFrame

NextText ==
    \/ \E fen \in PlacementInputs, build \in Builds : FromFenPlacementDataCall(fen, build)
    \/ \E s \in PosInputs, build \in Builds : PosFromStrCall(s, build)
    \/ \E pos \in OffsetInputs, delta_file \in DeltaInputs, delta_rank \in DeltaInputs,
          build \in Builds : OffsetCall(pos, delta_file, delta_rank, build)

SpecText == InitText /\ [][NextText]_vars

\* ------------------------------------------------------------------------
\* Properties
\* ------------------------------------------------------------------------

\* The last call was a move_piece that returned Ok.
Moved == last.op = "move_piece" /\ last.result = "Ok"

\* The last call was a get_legal_moves that returned a moveset.
Listed == last.op = "get_legal_moves" /\ last.result = "Ok"

\* The color that made the last call's move, and the tile it named.
Mover == last.before.current_turn

NamedTile == GetTile(last.before.board, last.from)

\* The mover's king is attacked once `from` has moved to `move_pos` in g.
LeavesKingAttacked(g, from, move_pos) ==
    LET color == GetTile(g.board, from).color
        pm == PerformMove(g, from, move_pos)
        after == [g EXCEPT !.board = pm.board]
        king == GetKingPos(after, color)
    IN  king # NonePos /\ IsAttackedBy(after, king, Opposite(color))

\* `pos` holds the king and `move_pos` lies two files from it.
IsCastling(b, pos, move_pos) ==
    GetTile(b, pos).piece = "King" /\ AbsDiff(pos.file, move_pos.file) = 2

\* The direction of a castling move, and the square the king crosses.
DirTo(pos, move_pos) == IF move_pos.file > pos.file THEN 1 ELSE -1

Crossed(pos, move_pos) == New(pos.file + DirTo(pos, move_pos), pos.rank)

\* The squares of the king's rank strictly between files f1 and f2.
Between(rank, f1, f2) ==
    {New(f, rank) : f \in {x \in Coord : (f1 < x /\ x < f2) \/ (f2 < x /\ x < f1)}}

\* The rook squares a castling from `pos` towards `move_pos` may use: a rook
\* of `color` beyond the crossed square with nothing between it and the king.
FreeRooks(b, pos, move_pos, color) ==
    {r \in BoardPos :
        /\ r.rank = pos.rank
        /\ (r.file - pos.file) * DirTo(pos, move_pos) >= 2
        /\ GetTile(b, r) = NewTile("Rook", color)
        /\ \A p \in Between(pos.rank, pos.file, r.file) : GetTile(b, p) = None}

\* C1: after a successful move_piece by a color, that color's king is on
\* the board and is not attacked by the opposite color.
C1_KingNotAttackedAfterMove ==
    Moved =>
        LET king == GetKingPos(Self, Mover)
        IN  king # NonePos /\ ~IsAttackedBy(Self, king, Opposite(Mover))

\* A move was made by a side whose king was attacked before it.
C1_Witness == Moved /\ IsCheck(last.before, Mover)

\* C2: for a square holding a piece of the side to move, get_legal_moves
\* returns exactly the pseudo-legal destinations (castling included) that do
\* not leave the mover's king attacked.
C2_LegalMovesExact ==
    (last.op = "get_legal_moves" /\ NamedTile # None /\ NamedTile.color = Mover) =>
        /\ last.result = "Ok"
        /\ last.moveset =
              {m \in GetPseudoLegalMoves(last.before, last.from, TRUE) :
                  ~LeavesKingAttacked(last.before, last.from, m)}

\* The destinations move_piece accepts from `from` in g.
Accepted(g, from) ==
    UNION {o.moveset : o \in {x \in GetLegalMoves(g, from) : x.result = "Ok"}}

\* C3: move_piece returns NoTile for an empty `from`, NotCurrentTurn for a
\* tile of the other color, InvalidMove for a `to` outside get_legal_moves
\* and Ok for a `to` inside it; an error leaves the whole game unchanged.
C3_MovePieceResult ==
    last.op = "move_piece" =>
        /\ last.result =
              (IF NamedTile = None THEN "NoTile"
               ELSE IF NamedTile.color # Mover THEN "NotCurrentTurn"
               ELSE IF last.to \in Accepted(last.before, last.from) THEN "Ok"
               ELSE "InvalidMove")
        /\ last.result # "Ok" => Self = last.before

C5_CastlingNeedsFreePath ==
    Listed =>
        \A m \in last.moveset :
            IsCastling(last.before.board, last.from, m) =>
                /\ IF DirTo(last.from, m) = 1
                   THEN CastlingOf(last.before, Mover).kingside
                   ELSE CastlingOf(last.before, Mover).queenside
                /\ FreeRooks(last.before.board, last.from, m, Mover) # {}

\* A pawn of `color` stands where `pos` is one of its two forward diagonals.
PawnGuards(b, pos, color) ==
    \E df \in {-1, 1} :
        LET behind == Offset(pos, df, IF color = "White" THEN -1 ELSE 1)
        IN  behind # NonePos /\ GetTile(b, behind) = NewTile("Pawn", color)

\* is_attacked_by says so, or an enemy pawn guards the square.
Attacked(g, pos, color) ==
    IsAttackedBy(g, pos, color) \/ PawnGuards(g.board, pos, color)

\* C6: get_legal_moves returns no castling destination while the king's
\* square, the crossed square or the landing square is attacked by the
\* opposite color, be it by is_attacked_by or by a pawn's diagonal.
C6_NoCastlingThroughAttack ==
    Listed =>
        \A m \in last.moveset :
            IsCastling(last.before.board, last.from, m) =>
                /\ ~Attacked(last.before, last.from, Opposite(Mover))
                /\ ~Attacked(last.before, Crossed(last.from, m), Opposite(Mover))
                /\ ~Attacked(last.before, m, Opposite(Mover))

\* A king was offered castling to one flank and not to the other, where it
\* holds the right and a rook stands free but the crossed square is attacked.
C6_Witness ==
    /\ Listed
    /\ NamedTile.piece = "King"
    /\ \E m \in last.moveset : IsCastling(last.before.board, last.from, m)
    /\ \E dir \in {-1, 1} :
        LET landing == Offset(last.from, 2 * dir, 0)
        IN  /\ landing # NonePos
            /\ landing \notin last.moveset
            /\ IF dir = 1 THEN CastlingOf(last.before, Mover).kingside
               ELSE CastlingOf(last.before, Mover).queenside
            /\ FreeRooks(last.before.board, last.from, landing, Mover) # {}
            /\ IsAttackedBy(last.before, Crossed(last.from, landing), Opposite(Mover))

\* The first occupied square from `pos` in direction `dir` along the rank.
FirstOccupied(b, pos, dir) ==
    LET occupied == {p \in BoardPos :
                        /\ p.rank = pos.rank
                        /\ (p.file - pos.file) * dir >= 0
                        /\ GetTile(b, p) # None}
    IN  IF occupied = {} THEN NonePos
        ELSE CHOOSE p \in occupied :
                \A q \in occupied : (p.file - pos.file) * dir <= (q.file - pos.file) * dir

\* C7: after a successful castling the king stands on `to`, `from` is empty,
\* the rook found by sliding from the crossed square stands on the crossed
\* square, its origin is empty and every other square is unchanged.
C7_CastlingMovesKingAndRook ==
    (Moved /\ IsCastling(last.before.board, last.from, last.to)) =>
        LET crossed == Crossed(last.from, last.to)
            rook_pos == FirstOccupied(last.before.board, crossed,
                                      DirTo(last.from, last.to))
        IN  /\ rook_pos # NonePos
            /\ GetTile(last.before.board, rook_pos) = NewTile("Rook", Mover)
            /\ GetTile(board, last.to) = NewTile("King", Mover)
            /\ GetTile(board, last.from) = None
            /\ GetTile(board, crossed) = NewTile("Rook", Mover)
            /\ GetTile(board, rook_pos) = None
            /\ \A p \in BoardPos \ {last.from, last.to, crossed, rook_pos} :
                  GetTile(board, p) = GetTile(last.before.board, p)

\* The back rank of a color.
BackRank(color) == IF color = "White" THEN 0 ELSE 7

\* C8: a successful move_piece clears both rights of the mover for a king,
\* the queenside (kingside) right for a rook leaving file 0 (file 7) of the
\* mover's back rank, and changes no other right.
C8_CastlingRightsAfterMove ==
    Moved =>
        LET was == CastlingOf(last.before, Mover)
            now == CastlingOf(Self, Mover)
            corner == NamedTile.piece = "Rook" /\ last.from.rank = BackRank(Mover)
        IN  /\ CastlingOf(Self, Opposite(Mover)) = CastlingOf(last.before, Opposite(Mover))
            /\ now = IF NamedTile.piece = "King" THEN Availability(FALSE, FALSE)
                     ELSE IF corner /\ last.from.file = 0
                     THEN Availability(was.kingside, FALSE)
                     ELSE IF corner /\ last.from.file = 7
                     THEN Availability(FALSE, was.queenside)
                     ELSE was

\* The king's rook left its corner while both rights were held.
C8_Witness ==
    /\ Moved
    /\ NamedTile.piece = "Rook"
    /\ last.from = New(7, BackRank(Mover))
    /\ CastlingOf(last.before, Mover) = Availability(TRUE, TRUE)
    /\ CastlingOf(Self, Mover) = Availability(FALSE, TRUE)

\* C9: after a successful move_piece the en passant target is the passed
\* square when a pawn changed rank by two and is empty otherwise, whatever
\* the target was before.
C9_EnPassantTargetAfterMove ==
    Moved =>
        en_passant_target =
            IF NamedTile.piece = "Pawn" /\ AbsDiff(last.from.rank, last.to.rank) = 2
            THEN New(last.from.file, (last.from.rank + last.to.rank) \div 2)
            ELSE NonePos

\* The move after a two-square pawn advance cleared the target.
C9_Witness ==
    Moved /\ last.before.en_passant_target # NonePos /\ en_passant_target = NonePos

\* C10: a set en passant target is an empty square of rank 2 below a White
\* pawn or of rank 5 above a Black pawn.
C10_EnPassantTargetRank ==
    en_passant_target # NonePos =>
        /\ GetTile(board, en_passant_target) = None
        /\ \/ /\ en_passant_target.rank = 2
              /\ GetTile(board, New(en_passant_target.file, 3)) = NewTile("Pawn", "White")
           \/ /\ en_passant_target.rank = 5
              /\ GetTile(board, New(en_passant_target.file, 4)) = NewTile("Pawn", "Black")

\* A target is set.
C10_Witness == Moved /\ en_passant_target # NonePos /\ en_passant_target.rank = 2

\* The last call was a successful move_piece of a pawn onto the en passant
\* target of the game it was made in.
EnPassantMove ==
    Moved /\ NamedTile.piece = "Pawn" /\ last.to = last.before.en_passant_target

\* C11: a pawn moved by move_piece onto the en passant target takes the
\* enemy pawn on (to.file, from.rank) off the board, the halfmove clock
\* becomes 0, and no square but from, to and the victim's changes.
C11_EnPassantCapture ==
    EnPassantMove =>
        LET victim == New(last.to.file, last.from.rank)
        IN  /\ GetTile(last.before.board, victim) = NewTile("Pawn", Opposite(Mover))
            /\ GetTile(board, victim) = None
            /\ GetTile(board, last.to) = NamedTile
            /\ GetTile(board, last.from) = None
            /\ halfmove_clock = 0
            /\ \A p \in BoardPos \ {last.from, last.to, victim} :
                  GetTile(board, p) = GetTile(last.before.board, p)

\* A pawn has taken en passant, the clock standing above 0 before.
C11_Witness == EnPassantMove /\ last.before.halfmove_clock > 0

\* The square between the two ends of a two-square pawn advance.
Passed(from, to) == New(from.file, (from.rank + to.rank) \div 2)

\* The last successful move_piece was a two-square advance of a pawn of
\* `color` that landed on `pos`.
JustAdvancedTwo(color, pos) ==
    /\ played.moved
    /\ played.tile = NewTile("Pawn", color)
    /\ played.to = pos
    /\ played.from.file = pos.file
    /\ AbsDiff(played.from.rank, played.to.rank) = 2

\* C12: get_legal_moves offers a pawn a diagonal step only onto an enemy
\* occupant, or onto the en passant target beside an enemy pawn whose
\* two-square advance was the last successful move; so no en passant
\* capture is on offer more than one ply after the advance.
C12_PawnDiagonalNeedsTarget ==
    (Listed /\ NamedTile.piece = "Pawn") =>
        \A m \in last.moveset :
            m.file # last.from.file =>
                LET on_target == GetTile(last.before.board, m)
                    beside == New(m.file, last.from.rank)
                IN  \/ on_target # None /\ on_target.color = Opposite(Mover)
                    \/ /\ m = last.before.en_passant_target
                       /\ GetTile(last.before.board, beside) = NewTile("Pawn", Opposite(Mover))
                       /\ JustAdvancedTwo(Opposite(Mover), beside)
                       /\ m = Passed(played.from, played.to)

\* A pawn is offered the en passant target, an empty square.
C12_Witness ==
    /\ Listed
    /\ NamedTile.piece = "Pawn"
    /\ last.before.en_passant_target \in last.moveset
    /\ GetTile(last.before.board, last.before.en_passant_target) = None

\* The squares holding a pawn in the game held in the variables.
Pawns == {pos \in BoardPos : GetTile(board, pos).piece = "Pawn"}

\* The forward direction of a color.
Forward(color) == IF color = "White" THEN 1 ELSE -1

\* C13: the square one step ahead of a pawn is among its pseudo-legal moves
\* if and only if that square is empty.
C13_PawnForwardOneIffEmpty ==
    \A pos \in Pawns :
        LET ahead == Offset(pos, 0, Forward(GetTile(board, pos).color))
        IN  ahead # NonePos =>
                (ahead \in GetPseudoLegalMoves(Self, pos, FALSE)
                    <=> GetTile(board, ahead) = None)

\* C14: the square two steps ahead of a pawn is among its pseudo-legal
\* moves if and only if the pawn stands on its starting rank and both the
\* square between and the landing square are empty.
C14_PawnForwardTwoIffFree ==
    \A pos \in Pawns :
        LET color == GetTile(board, pos).color
            between == Offset(pos, 0, Forward(color))
            landing == Offset(pos, 0, 2 * Forward(color))
        IN  landing # NonePos =>
                (landing \in GetPseudoLegalMoves(Self, pos, FALSE)
                    <=> /\ pos.rank = (IF color = "White" THEN 1 ELSE 6)
                        /\ GetTile(board, between) = None
                        /\ GetTile(board, landing) = None)

\* The unit steps along ranks and files, and along diagonals.
Straight == {d \in {-1, 0, 1} \X {-1, 0, 1} : (d[1] = 0) # (d[2] = 0)}

Diagonal == {d \in {-1, 0, 1} \X {-1, 0, 1} : d[1] # 0 /\ d[2] # 0}

\* The directions a sliding piece walks in.
Directions(piece) ==
    CASE piece = "Rook" -> Straight
      [] piece = "Bishop" -> Diagonal
      [] piece = "Queen" -> Straight \cup Diagonal

\* The k-th square from `pos` in direction d lies on the board.
OnBoard(pos, d, k) ==
    pos.file + k * d[1] \in Coord /\ pos.rank + k * d[2] \in Coord

\* That square.
Along(pos, d, k) == [file |-> pos.file + k * d[1], rank |-> pos.rank + k * d[2]]

\* The squares a piece of `color` standing on `pos` reaches in direction d:
\* the run of empty squares, and the first occupied one when it is an enemy.
Reach(b, pos, d, color) ==
    {Along(pos, d, k) : k \in
        {k \in 1..7 :
            /\ OnBoard(pos, d, k)
            /\ \A j \in 1..(k - 1) : GetTile(b, Along(pos, d, j)) = None
            /\ GetTile(b, Along(pos, d, k)).color # color}}

\* The squares holding a bishop, rook or queen in the game in the variables.
Sliders == {pos \in BoardPos : GetTile(board, pos).piece \in {"Bishop", "Rook", "Queen"}}

\* C15: the pseudo-legal destinations of a bishop, rook or queen are, in
\* each of its directions, the empty squares up to the first occupied one,
\* and that one if it holds an enemy; nothing beyond it, no friendly tile.
C15_SlidingMoves ==
    \A pos \in Sliders :
        LET tile == GetTile(board, pos)
        IN  GetPseudoLegalMoves(Self, pos, FALSE) =
                UNION {Reach(board, pos, d, tile.color) : d \in Directions(tile.piece)}

\* The first occupied square from `pos` in direction d, or None.
Blocker(b, pos, d) ==
    LET ks == {k \in 1..7 : OnBoard(pos, d, k) /\ GetTile(b, Along(pos, d, k)) # None}
    IN  IF ks = {} THEN NonePos
        ELSE Along(pos, d, CHOOSE k \in ks : \A j \in ks : k <= j)

\* A sliding piece was queried that is stopped by a friend one way and by an
\* enemy, which it may take, another way, with squares behind that enemy.
C15_Witness ==
    /\ Listed
    /\ NamedTile.piece \in {"Bishop", "Rook", "Queen"}
    /\ \E d \in Directions(NamedTile.piece) :
          LET stop == Blocker(last.before.board, last.from, d)
          IN  stop # NonePos /\ GetTile(last.before.board, stop).color = Mover
    /\ \E d \in Directions(NamedTile.piece) :
          LET stop == Blocker(last.before.board, last.from, d)
          IN  /\ stop # NonePos
              /\ GetTile(last.before.board, stop).color = Opposite(Mover)
              /\ stop \in last.moveset
              /\ Offset(stop, d[1], d[2]) # NonePos

\* The king's steps: every neighbouring square.
KingSteps == {d \in {-1, 0, 1} \X {-1, 0, 1} : d # <<0, 0>>}

\* The knight's jumps: two squares one way and one the other.
KnightJumps ==
    {d \in {-2, -1, 1, 2} \X {-2, -1, 1, 2} : d[1] * d[1] + d[2] * d[2] = 5}

\* The squares one offset away from `pos`, on the board, that do not hold a
\* tile of `color`.
OneStep(b, pos, ds, color) ==
    {Along(pos, d, 1) : d \in {d \in ds : OnBoard(pos, d, 1) /\
                                          GetTile(b, Along(pos, d, 1)).color # color}}

\* The squares holding a king or a knight in the game in the variables.
Steppers(piece) == {pos \in BoardPos : GetTile(board, pos).piece = piece}

\* The board holds nothing but the tile on `pos`.
Alone(b, pos) == \A other \in BoardPos \ {pos} : GetTile(b, other) = None

\* C16: the pseudo-legal destinations of a king (castling aside) and of a
\* knight are exactly the squares one offset away that are on the board and
\* empty or enemy-occupied; alone on the board on e4, either has 8 of them.
C16_KingAndKnightMoves ==
    /\ \A pos \in Steppers("King") :
          GetPseudoLegalMoves(Self, pos, FALSE) =
              OneStep(board, pos, KingSteps, GetTile(board, pos).color)
    /\ \A pos \in Steppers("Knight") :
          GetPseudoLegalMoves(Self, pos, TRUE) =
              OneStep(board, pos, KnightJumps, GetTile(board, pos).color)
    /\ \A pos \in Steppers("King") \cup Steppers("Knight") :
          (pos = New(4, 3) /\ Alone(board, pos)) =>
              Cardinality(GetPseudoLegalMoves(Self, pos, TRUE)) = 8
    /\ (Listed /\ last.from = New(4, 3) /\ Alone(last.before.board, last.from)) =>
          /\ NamedTile.piece = "King" =>
                last.moveset = {New(3, 4), New(4, 4), New(5, 4), New(3, 3),
                                New(5, 3), New(3, 2), New(4, 2), New(5, 2)}
          /\ NamedTile.piece = "Knight" =>
                last.moveset = {New(3, 5), New(5, 5), New(6, 4), New(6, 2),
                                New(5, 1), New(3, 1), New(2, 2), New(2, 4)}

\* A knight alone on e4 was queried and has its 8 squares.
C16_Witness ==
    /\ Listed
    /\ last.from = New(4, 3)
    /\ Alone(last.before.board, last.from)
    /\ NamedTile.piece = "Knight"
    /\ Cardinality(last.moveset) = 8

\* The most recent successful move advanced a pawn to its last rank.
ReachedLastRank ==
    /\ played.moved
    /\ played.tile.piece = "Pawn"
    /\ played.to.rank = (IF played.tile.color = "White" THEN 7 ELSE 0)

\* promotion_required is set iff the most recent successful move advanced a
\* pawn to its last rank and promote was not called since, and is that
\* move's `to`.
PendingIffJustReached ==
    /\ promotion_required # NonePos <=> (ReachedLastRank /\ ~played.promoted)
    /\ promotion_required # NonePos => promotion_required = played.to

\* C17: as long as no move was made while a promotion was pending,
\* promotion_required is set iff the most recent successful move advanced a
\* pawn to its last rank and promote was not called since; it is then that
\* move's `to`, and a move that does not promote leaves it empty.
C17_PromotionPending ==
    /\ ~played.unresolved => PendingIffJustReached
    /\ (Moved /\ last.before.promotion_required = NonePos /\ ~ReachedLastRank) =>
          promotion_required = NonePos

\* C17 as stated, whatever the caller did while a promotion was pending.
C17_PromotionPendingAlways == PendingIffJustReached

\* A pawn has just reached its last rank and its promotion is pending, no
\* move having been made during an earlier pending promotion.
C17_Witness ==
    /\ Moved
    /\ ~played.unresolved
    /\ ReachedLastRank
    /\ promotion_required = last.to

\* The last call was a promote.
Promoted == last.op = "promote"

\* C18: promote(kind), kind not Pawn or King, with a promotion pending,
\* replaces the tile on the pending square by `kind` of the same color,
\* clears the pending promotion and leaves the turn and every other square
\* as they were.
C18_PromoteReplacesPawn ==
    Promoted =>
        LET pos == last.before.promotion_required
        IN  /\ last.kind \notin {"Pawn", "King"}
            /\ pos # NonePos
            /\ GetTile(board, pos) =
                   NewTile(last.kind, GetTile(last.before.board, pos).color)
            /\ promotion_required = NonePos
            /\ current_turn = last.before.current_turn
            /\ \A other \in BoardPos \ {pos} :
                   GetTile(board, other) = GetTile(last.before.board, other)

\* promote(Knight) was called on the square a pawn had just reached.
C18_Witness ==
    /\ Promoted
    /\ last.kind = "Knight"
    /\ GetTile(last.before.board, last.from).piece = "Pawn"
    /\ last.from = played.to
    /\ GetTile(board, last.from).piece = "Knight"

\* The squares holding a tile of `color` in g.
TilesOf(g, color) == {pos \in BoardPos : GetTile(g.board, pos).color = color}

\* `color` is in check in g and get_legal_moves is empty for each of its
\* tiles.
NoWayOut(g, color) ==
    /\ IsCheck(g, color)
    /\ \A pos \in TilesOf(g, color) : Accepted([g EXCEPT !.current_turn = color], pos) = {}

\* The last call was an is_checkmate for the side to move.
AskedCheckmate == last.op = "is_checkmate"

\* C19: is_checkmate(color) is true iff `color` is in check and none of its
\* tiles has a legal move, en passant captures included; once a side is
\* checkmated no move_piece of it succeeds.
C19_CheckmateIffNoLegalMove ==
    /\ AskedCheckmate =>
          (last.result = "Checkmate" <=> NoWayOut(last.before, last.before.current_turn))
    /\ Moved => ~IsCheckmate(last.before, Mover)

\* The last move captured a piece: `to` held an enemy tile, or the move was
\* an en passant capture.
Captured ==
    \/ GetTile(last.before.board, last.to).color = Opposite(Mover)
    \/ EnPassantMove

\* C20: after a successful move_piece the halfmove clock is 0 if the move
\* captured a piece and the previous clock plus one otherwise.
C20_HalfmoveClock ==
    Moved =>
        halfmove_clock = (IF Captured THEN 0 ELSE last.before.halfmove_clock + 1)

\* C21: after a successful move_piece the fullmove number is its previous
\* value plus one if Black moved, and its previous value if White moved.
C21_FullmoveNumber ==
    Moved =>
        fullmove_number =
            (IF Mover = "Black" THEN last.before.fullmove_number + 1
             ELSE last.before.fullmove_number)

\* Black answered a move of White, and the fullmove number went up by one
\* over the two moves.
C21_Witness ==
    /\ Moved
    /\ Mover = "Black"
    /\ last.before.halfmove_clock > 0
    /\ fullmove_number = last.before.fullmove_number + 1

\* The last successful move was neither a castling move nor a pawn's move
\* onto the en passant target.
PlainMove ==
    /\ Moved
    /\ ~IsCastling(last.before.board, last.from, last.to)
    /\ ~EnPassantMove

\* C22: after a successful move_piece(from, to) the square `from` is empty
\* and `to` holds the tile that stood on `from`; unless the move was
\* castling or en passant, every other square is as it was.
C22_MoveFrame ==
    Moved =>
        /\ GetTile(board, last.from) = None
        /\ GetTile(board, last.to) = NamedTile
        /\ PlainMove =>
              \A other \in BoardPos \ {last.from, last.to} :
                  GetTile(board, other) = GetTile(last.before.board, other)

\* The last call was a to_fen, and `text` is the string it returned.
Exported == last.op = "to_fen"

\* The run began with Game::new.
FromStart == start = NewGame

\* C23: from a state reached from the starting position with no promotion
\* pending, from_fen(to_fen(state)) is Ok and equal to the state in board,
\* turn, castling rights, en passant target and both clocks.
C23_FenRoundTrip ==
    (Exported /\ FromStart /\ promotion_required = NonePos) =>
        \A build \in Builds : FromFenText(text, build) = Imported("Ok", Self)

\* C24: the fifth and sixth fields of the string to_fen returns are the
\* decimal renderings of halfmove_clock and fullmove_number.
C24_FenClockFields ==
    Exported =>
        LET fields == SplitWhitespace(text)
        IN  /\ Len(fields) = 6
            /\ fields[5] = ToStringOfInt(halfmove_clock)
            /\ fields[6] = ToStringOfInt(fullmove_number)

\* The last call was a from_fen_placement_data of `text`.
ParsedPlacement == last.op = "from_fen_placement_data"

\* The files a char of a placement string stands for: a digit its value,
\* any other char one.
Width(char) == IF ToDigit(char) # {} THEN char - Ascii("0") ELSE 1

\* The files the chars i..j of s stand for.
RECURSIVE Files(_, _, _)
Files(s, i, j) == IF i > j THEN 0 ELSE Width(s[i]) + Files(s, i + 1, j)

\* The number of '/' among the first i - 1 chars of s, and the files the
\* chars between the last of them and the i-th char stand for.
SlashesBefore(s, i) == Cardinality({j \in 1..(i - 1) : s[j] = Ascii("/")})

FilesBefore(s, i) ==
    LET slashes == {j \in 1..(i - 1) : s[j] = Ascii("/")}
        from == IF slashes = {} THEN 1
                ELSE 1 + CHOOSE j \in slashes : \A k \in slashes : k <= j
    IN  Files(s, from, i - 1)

\* What is wrong with the i-th char of the placement string s, read after
\* the chars before it: the error kind the import names for it, "Malformed"
\* where it names none, "None" if the char is in order.
Defect(s, i) ==
    LET char == s[i]
    IN  IF ToDigit(char) # {}
        THEN IF Width(char) > 8 THEN "LargeSkip"
             ELSE IF Width(char) = 0 THEN "Malformed"
             ELSE IF FilesBefore(s, i) + Width(char) > 8 THEN "OutsideBoard"
             ELSE "None"
        ELSE IF char = Ascii("/")
        THEN IF SlashesBefore(s, i) >= 7 THEN "OutsideBoard"
             ELSE IF FilesBefore(s, i) # 8 THEN "Malformed"
             ELSE "None"
        ELSE IF char \notin {Ascii(c) : c \in {"k", "q", "r", "b", "n", "p",
                                                "K", "Q", "R", "B", "N", "P"}}
        THEN "InvalidPiece"
        ELSE IF FilesBefore(s, i) >= 8 THEN "OutsideBoard"
        ELSE "None"

\* What the import of the placement string s is to return: "Ok" for eight
\* ranks of eight files each, otherwise the error of the first char that
\* is not in order, or "Malformed" for a string that ends too early.
Intended(s) ==
    LET wrong == {i \in DOMAIN s : Defect(s, i) # "None"}
    IN  IF wrong # {} THEN Defect(s, CHOOSE i \in wrong : \A j \in wrong : i <= j)
        ELSE IF SlashesBefore(s, Len(s) + 1) = 7 /\ FilesBefore(s, Len(s) + 1) = 8
        THEN "Ok"
        ELSE "Malformed"

\* s is a valid placement string: eight rank strings separated by '/', each
\* of exactly eight files in digits 1..8 and piece letters.
ValidPlacement(s) == Intended(s) = "Ok"

\* A valid placement string in which every run of empty squares is written
\* as one digit.
RunsMerged(s) ==
    /\ ValidPlacement(s)
    /\ \A i \in 1..(Len(s) - 1) : ToDigit(s[i]) = {} \/ ToDigit(s[i + 1]) = {}

\* The placement string parsed by the last call was parsed without error
\* and the board returned is rendered as that same string.
RendersBack == last.result = "Ok" /\ ToFenPlacementData(board) = text

\* C25: for every valid placement string s that writes each run of empty
\* squares as one digit, to_fen_placement_data(from_fen_placement_data(s))
\* is s.
C25_PlacementRoundTrip == (ParsedPlacement /\ RunsMerged(text)) => RendersBack

\* C25 as stated: for every valid placement string.
C25_PlacementRoundTripOfAnyValid == (ParsedPlacement /\ ValidPlacement(text)) => RendersBack

\* A placement string with pieces and runs of empty squares was parsed and
\* rendered back.
C25_Witness ==
    /\ ParsedPlacement
    /\ RunsMerged(text)
    /\ \E i \in DOMAIN text : ToDigit(text[i]) # {} /\ Width(text[i]) < 8
    /\ \E file \in Coord : GetTile(board, New(file, 0)).color = "White"
    /\ \E file \in Coord : GetTile(board, New(file, 7)).color = "Black"
    /\ RendersBack

\* C26: from_fen_placement_data never panics, returns an error for every
\* malformed string, and returns LargeSkip for a digit above 8,
\* InvalidPiece for an unknown letter and OutsideBoard for a cursor leaving
\* the board, whichever comes first in the string.
C26_PlacementErrors ==
    ParsedPlacement =>
        /\ last.result # "Panic"
        /\ Intended(text) \in {"LargeSkip", "InvalidPiece", "OutsideBoard"} =>
              last.result = Intended(text)
        /\ Intended(text) = "Malformed" => last.result # "Ok"

\* The last call was a from_str of `text`.
ParsedPos == last.op = "from_str"

\* C27: parsing the text of BoardPos(f, r), for f and r in 0..7, is Ok and
\* yields BoardPos(f, r).
C27_PosRoundTrip ==
    ParsedPos =>
        \A pos \in BoardPos :
            text = PosToString(pos) => (last.result = "Ok" /\ last.to = pos)

\* "b4" was parsed to BoardPos(1, 3) in the debug build.
C27_Witness ==
    /\ ParsedPos
    /\ text = Str(<<"b", "4">>)
    /\ text = PosToString(New(1, 3))
    /\ last.kind = "debug"
    /\ last.to = New(1, 3)

\* The last call was an offset.
Offsetted == last.op = "offset"

\* C28: offset(df, dr) on (f, r) returns (f + df, r + dr) when both stay
\* within 0..7 and nothing otherwise, for all i8 deltas, without a panic
\* and without an addition wrapping around.
C28_OffsetInRangeOrNone ==
    Offsetted =>
        \A delta \in last.moveset :
            LET file == last.from.file + delta[1]
                rank == last.from.rank + delta[2]
            IN  IF file \in Coord /\ rank \in Coord
                THEN last.result = "Some" /\ last.to = New(file, rank)
                ELSE last.result = "None"

\* The kings of `color` on board `b`.
Kings(b, color) == {p \in BoardPos : GetTile(b, p) = NewTile("King", color)}

\* The run began with one king of each color, as the starting position has.
OneKingEachAtStart ==
    /\ Cardinality(Kings(start.board, "White")) = 1
    /\ Cardinality(Kings(start.board, "Black")) = 1

\* C29: in every state reached by successful move_piece calls from the
\* starting position, and from any position with one king of each color,
\* the board holds exactly one White king and exactly one Black king. The
\* promote calls in between are those made before the next move, or none.
C29_OneKingEach ==
    (OneKingEachAtStart /\ ~played.late) =>
        /\ Cardinality(Kings(board, "White")) = 1
        /\ Cardinality(Kings(board, "Black")) = 1

\* Two moves were made, the first by a side whose king was attacked and the
\* second by the attacking side, and both kings stand.
C29_Witness ==
    /\ Moved
    /\ IsCheck(start, start.current_turn)
    /\ Mover = Opposite(start.current_turn)
    /\ Cardinality(Kings(board, "White")) = 1
    /\ Cardinality(Kings(board, "Black")) = 1

\* C30: in every state reached from the starting position by successful
\* move_piece calls, get_legal_moves and move_piece return for every square
\* they are called on: no call ends in a panic.
C30_NoPanicFromStart ==
    (FromStart /\ last.op \in {"get_legal_moves", "move_piece"}) =>
        /\ last.result # "Panic"
        /\ ~panicked

\* The orders in which n recorded tiles can be replayed.
Orders(n) == {f \in [1..n -> 1..n] : \A i, j \in 1..n : f[i] = f[j] => i = j}

\* perform_move(from, to) on g returns a record whose replay, in every
\* order, gives back the board of g.
UndoRestores(g, from, to) ==
    LET pm == PerformMove(g, from, to)
    IN  pm.panic \/
        \A f \in Orders(Len(pm.changed_tiles)) :
            UndoPerformedMove(pm.board,
                              [i \in 1..Len(pm.changed_tiles) |-> pm.changed_tiles[f[i]]])
                = g.board

\* The pseudo-legal moves get_legal_moves generated in its last call.
Generated ==
    IF last.op = "get_legal_moves" /\ NamedTile # None /\ NamedTile.color = Mover
    THEN GetPseudoLegalMoves(last.before, last.from, TRUE)
    ELSE {}

\* C31: for every pseudo-legal move (castling and en passant included),
\* perform_move followed by undo_performed_move restores the board exactly,
\* in whatever order the recorded squares are replayed.
C31_UndoRestoresBoard ==
    \A m \in Generated : UndoRestores(last.before, last.from, m)

\* The last call was a query that returned, with a result or an error.
QueryReturned ==
    /\ last.op \in {"get_legal_moves", "is_checkmate"}
    /\ last.result # "Panic"

\* C32: get_legal_moves and is_checkmate, whether they succeed or return an
\* error, leave the game as it was: board, turn, castling rights, en passant
\* target, pending promotion and both clocks.
C32_QueriesLeaveGame == QueryReturned => Self = last.before

\* ------------------------------------------------------------------------
\* Loop turns and call nesting of the generator and the attack detector
\* ------------------------------------------------------------------------

\* The squares of one line of the board.
Line == Cardinality(Coord)

\* try_move_multiple: the turns its loop takes from `pos`, counted up to
\* `fuel` turns.
RECURSIVE TryMoveMultipleTurns(_, _, _, _, _, _)
TryMoveMultipleTurns(b, pos, friendly_color, delta_file, delta_rank, fuel) ==
    IF fuel = 0 THEN 0
    ELSE LET new_move == TryMoveOnce(b, pos, delta_file, delta_rank, friendly_color)
         IN  IF new_move = {} THEN 1
             ELSE LET m == CHOOSE x \in new_move : TRUE
                  IN  IF m.move_type = "Attacking" THEN 1
                      ELSE 1 + TryMoveMultipleTurns(b, m.pos, friendly_color,
                                                    delta_file, delta_rank, fuel - 1)

\* find_rook: the turns its loop takes from `pos`, counted up to `fuel`
\* turns.
RECURSIVE FindRookTurns(_, _, _, _)
FindRookTurns(b, pos, dir, fuel) ==
    IF fuel = 0 THEN 0
    ELSE IF GetTile(b, pos) # None THEN 1
    ELSE LET new_pos == Offset(pos, dir, 0)
         IN  IF new_pos = NonePos THEN 1
             ELSE 1 + FindRookTurns(b, new_pos, dir, fuel - 1)

\* The squares holding a tile of `color` on board b.
Held(b, color) == {p \in BoardPos : GetTile(b, p).color = color}

\* NestedCalls with is_attacked_by asking for the castling moves too.
NestedCallsWithCastling(g, pos, include_castling) ==
    LET tile == GetTile(g.board, pos)
        castling_availability == CastlingOf(g, tile.color)
    IN  IF tile.piece = "King" /\ include_castling
           /\ (castling_availability.kingside \/ castling_availability.queenside)
        THEN {<<enemy_pos, TRUE>> : enemy_pos \in Held(g.board, Opposite(tile.color))}
        ELSE {}

\* The get_pseudo_legal_moves calls that one get_pseudo_legal_moves(pos,
\* include_castling) call can make, through is_check and try_castling, in
\* is_attacked_by: one for each tile of the other color, without castling.
NestedCalls(g, pos, include_castling) ==
    LET tile == GetTile(g.board, pos)
        castling_availability == CastlingOf(g, tile.color)
    IN  IF tile.piece = "King" /\ include_castling
           /\ (castling_availability.kingside \/ castling_availability.queenside)
        THEN {<<enemy_pos, FALSE>> : enemy_pos \in Held(g.board, Opposite(tile.color))}
        ELSE {}

\* The nesting depth of get_pseudo_legal_moves calls under one call, counted
\* up to `fuel` levels.
RECURSIVE Nesting(_, _, _, _)
Nesting(g, pos, include_castling, fuel) ==
    IF fuel = 0 THEN 0
    ELSE LET below == {Nesting(g, c[1], c[2], fuel - 1) :
                          c \in NestedCalls(g, pos, include_castling)}
         IN  1 + (IF below = {} THEN 0
                  ELSE CHOOSE d \in below : \A e \in below : e <= d)

\* The directions the generator walks from a tile.
VectorsOf(tile) ==
    CASE tile.piece = "Queen" -> QueenVectors
      [] tile.piece = "Rook" -> RookVectors
      [] tile.piece = "Bishop" -> BishopVectors
      [] OTHER -> {}

\* Every sliding walk from a tile of the board ends within a line's turns.
WalksEnd ==
    \A pos \in BoardPos :
        LET tile == GetTile(board, pos)
        IN  \A d \in VectorsOf(tile) :
                TryMoveMultipleTurns(board, pos, tile.color, d[1], d[2], Line + 1) <= Line

\* Every rook search along a rank, from any square, ends within a line's
\* turns.
RookSearchesEnd ==
    \A pos \in BoardPos, dir \in {-1, 1} :
        FindRookTurns(board, pos, dir, Line + 1) <= Line

\* A get_pseudo_legal_moves call with castling nests one level of calls
\* without castling and no more; a call without castling nests none.
NestingEnds ==
    \A pos \in BoardPos :
        GetTile(board, pos) # None =>
            /\ Nesting(Self, pos, TRUE, Line) <= 2
            /\ Nesting(Self, pos, FALSE, Line) = 1

\* C33: get_legal_moves, is_attacked_by, is_check and is_checkmate end:
\* is_attacked_by asks for pseudo-legal moves without castling, so the
\* castling qualification is not entered again, and every sliding walk and
\* rook search stops at the board edge at the latest.
C33_QueriesEnd == WalksEnd /\ RookSearchesEnd /\ NestingEnds

\* get_legal_moves returned for a king with a castling right, the other
\* side's moves having been asked for; on the board a rook walks a whole
\* file from its corner and a rook search crosses a whole empty rank.
C33_Witness ==
    /\ Listed
    /\ NamedTile.piece = "King"
    /\ Nesting(last.before, last.from, TRUE, Line) = 2
    /\ \E pos \in BoardPos, d \in RookVectors :
          /\ GetTile(board, pos).piece = "Rook"
          /\ TryMoveMultipleTurns(board, pos, GetTile(board, pos).color,
                                  d[1], d[2], Line + 1) = Line
    /\ \E pos \in BoardPos : FindRookTurns(board, pos, 1, Line + 1) = Line

\* C34: no destination returned by get_legal_moves(from) holds a tile of
\* the mover's own color, castling destinations included, and a successful
\* move_piece neither lands on a friendly tile nor lessens the mover's
\* tiles.
C34_NoFriendlyDestination ==
    /\ Listed =>
          \A m \in last.moveset : GetTile(last.before.board, m).color # Mover
    /\ Moved =>
          /\ GetTile(last.before.board, last.to).color # Mover
          /\ Cardinality(Held(board, Mover)) = Cardinality(Held(last.before.board, Mover))

Flanks == {"kingside", "queenside"}

\* The corner of a color's back rank on a flank.
Corner(color, flank) == New(IF flank = "kingside" THEN 7 ELSE 0, BackRank(color))

\* g holds the castling right of `color` for `flank`.
HoldsRight(g, color, flank) == CastlingOf(g, color)[flank]

\* The king of `color` stands on its original square.
KingAtHome(color) == GetTile(board, New(4, BackRank(color))) = NewTile("King", color)

\* The last call moved a rook of `color` onto the corner of `flank`.
RookCameToCorner(color, flank) ==
    /\ Moved
    /\ NamedTile = NewTile("Rook", color)
    /\ last.to = Corner(color, flank)

\* C35: whenever a color holds a castling right for a flank, its king
\* stands on its original square and the rook on that flank's corner is not
\* one that has moved; a right, once cleared, is not restored by any call.
C35_RightsMeanUnmoved ==
    \A color \in {"White", "Black"}, flank \in Flanks :
        /\ HoldsRight(Self, color, flank) =>
              /\ KingAtHome(color)
              /\ ~RookCameToCorner(color, flank)
        /\ (last.op # "new" /\ HoldsRight(Self, color, flank)) =>
              HoldsRight(last.before, color, flank)

\* The squares a pawn on `pos` attacks in chess: its two forward diagonals.
PawnAttacks(b, pos) ==
    {Offset(pos, d, Forward(GetTile(b, pos).color)) : d \in {-1, 1}} \ {NonePos}

\* `pos` is attacked by `color` in g with pawns attacking their forward
\* diagonals and every other piece its pseudo-legal moves without castling.
ChessAttacked(g, pos, color) ==
    \E from \in Held(g.board, color) :
        IF GetTile(g.board, from).piece = "Pawn"
        THEN pos \in PawnAttacks(g.board, from)
        ELSE pos \in GetPseudoLegalMoves(g, from, FALSE)

\* C36: is_attacked_by(pos, color) holds exactly when a pawn of `color` has
\* `pos` on one of its two forward diagonals, occupied or not, or another
\* piece of `color` has it among its moves: never for a pawn's square
\* straight ahead alone.
C36_PawnAttacksDiagonally ==
    \A pos \in BoardPos, color \in {"White", "Black"} :
        IsAttackedBy(Self, pos, color) <=> ChessAttacked(Self, pos, color)

\* C37: parsing any string as a BoardPos returns a parse error or a
\* position with file and rank within 0..7; it does not panic and does not
\* return a position off the board.
C37_ParsedPosInRange ==
    ParsedPos =>
        \/ last.result = "Err"
        \/ last.result = "Ok" /\ last.to \in BoardPos

====
